---- MODULE Spec2Model ----
(***************************************************************************)
(* Element-location pipeline of pymidscene: the YAML-backed TaskCache      *)
(* (core/agent/task_cache.py) and the Agent's ai_locate /                  *)
(* ai_locate_with_scroll_retry orchestration (core/agent/agent.py).        *)
(*                                                                         *)
(* Spec      : the TaskCache API driven directly (construct, match,        *)
(*             update_fn, append) over one cache file.                     *)
(* SpecAgent : Agents constructed over one cache file, running ai_locate   *)
(*             and ai_locate_with_scroll_retry step by step against a      *)
(*             page and a model whose answers are nondeterministic.        *)
(***************************************************************************)
EXTENDS Integers, Sequences, FiniteSets, TLC

\* ------------------------------------------------------------------ bounds
\* Longest in-memory entry list (self.cache.caches) the model explores.
MaxEntries == 2
\* Most update_fn calls per instance that change an entry's type or prompt.
MaxRetags == 1
\* Largest max_scroll_attempts a caller passes.
MaxAttempts == 2
MaxRuns == 2
\* ai_click / ai_input calls of one recorded session.
MaxRecordedCalls == 2
\* The largest model_config.retry_count.
MaxRetryCount == 2

\* ------------------------------------------------------------- value sets
None == "None"

CacheTypes == {"plan", "locate"}
Strategies == {"read-only", "read-write", "write-only"}

\* A prompt is a str or a dict; text names the str, or the dict's one value.
Str(t) == [dict |-> FALSE, text |-> t]
Dict(t) == [dict |-> TRUE, text |-> t]
Prompts == {Str("a"), Dict("a")}
\* The prompts Agent.ai_locate is called with (prompt: str).
AgentPrompts == {Str("a")}

XPaths == {"x1", "x2"}

\* In-memory dataclasses.
PlanningCache(p, w) == [type |-> "plan", prompt |-> p, yaml_workflow |-> w]
LocateCache(p, c) == [type |-> "locate", prompt |-> p, cache |-> c]
XPathCache(x) == [xpaths |-> <<x>>]

\* The entries the callers of append_cache and update_fn pass in Spec.
EntryInputs ==
  {LocateCache(Str("a"), XPathCache("x1")), LocateCache(Str("a"), XPathCache("x2")),
   PlanningCache(Str("a"), "w1")}

\* ------------------------------------------------------------------ state
VARIABLES
  file,                    \* the cache file: [exists, caches] (the YAML document)
  caches,                  \* self.cache.caches
  cache_original_length,   \* self.cache_original_length
  matched_cache_indices,   \* self.matched_cache_indices: keys <<type, prompt_str, i>>
  strategy,                \* "read-only" | "read-write" | "write-only"
  is_cache_result_used,    \* self.is_cache_result_used
  loaded,                  \* history: the entry list as loaded at construction
  focus,                   \* history: the (type, prompt) pair whose match_cache calls are observed
  matchCalls,              \* history: match_cache calls made with the focus pair, saturating
  retags,                  \* history: update_fn calls that changed an entry's type or prompt
  last,                    \* the last TaskCache call; for a match_cache call with the focus pair, the index it returned (0 for None)
  has_task_cache,          \* Agent: self.task_cache is not None
  page,                    \* the live page: the xpath of the DOM node at each element position, or None
  pc,                      \* Agent: where the running ai_locate / ai_locate_with_scroll_retry call stands
  call,                    \* Agent: the running (or last) call: [kind, prompt, use_cache, max_scroll_attempts]
  attempt,                 \* ai_locate_with_scroll_retry: the loop variable
  use_cache,               \* ai_locate: its use_cache parameter
  element,                 \* ai_locate: the element it returns (NoElement for None)
  result,                  \* what the call returned: an element or NoElement; Raised; Pending while it runs
  modelCalls,              \* history: model requests made by the call
  scrolls,                 \* history: interface.scroll calls made by the call
  screenshots,             \* history: interface.screenshot calls made by the call
  cacheHit,                \* history: the call's cache lookup: "none", "resolved" or "stale"
  responses,               \* history: the classes of model responses the call has received
  answer,                  \* history: the kind of the call's last model response
  file_complete,           \* the file holds a complete document (no write was cut short)
  flush_pc,                \* _flush_cache_to_file: "idle", or "writing" between open() and the end of yaml.dump
  fault,                   \* what failed in the last cache call: "none", "mkdir", "open", "write", "crash"
  raised,                  \* whether the last cache call raised
  other_open,              \* a second TaskCache instance on the same file exists
  other_caches,            \* the second instance's self.cache.caches
  bbox_in,                 \* adapt_bbox: the arguments of the call
  rect_out,                \* format_bbox(adapt_bbox(...)): the outcome, once computed
  click_pc,                \* ai_click: "idle", "locating", "returned" or "raised"
  click_ret,               \* ai_click: what it returned: "True" or "False"; "none" before
  clicked_positions,       \* the points of the interface.click calls of the ai_click call
  cache_id_arg,            \* TaskCache.__init__: its cache_id argument
  cache_id,                \* self.cache_id, once set
  steps,                   \* SessionRecorder.steps: [action_type, status] of each ReportStep
  current_step,            \* SessionRecorder.current_step: its index in steps, 0 for None
  step_pc,                 \* ai_click / ai_input with recording: "idle", "locate", "notfound" or "act"
  step_call,               \* the running (or last) recorded call: [kind, enable_scroll_retry, first, attempt]
  step_ret,                \* what the recorded call returned: "True", "False"; "raised"; "none" before
  ai_pc,                   \* call_ai: "idle", "request" or "sleep"
  ai_config,               \* call_ai: model_config: [retry_count, retry_interval]
  max_attempts,            \* call_ai: max_attempts
  ai_attempt,              \* call_ai: the loop variable attempt
  last_error,              \* call_ai: last_error (None, or the request that raised it)
  requests,                \* history: the outcomes of the requests call_ai has sent
  sleeps,                  \* history: the delays, in milliseconds, of its time.sleep calls
  ai_result                \* what call_ai did: [state |-> "none" | "running" | "returned" | "raised"]

cacheVars == <<caches, cache_original_length, matched_cache_indices, strategy,
               is_cache_result_used, loaded, focus, matchCalls, retags>>
agentVars == <<has_task_cache, page, pc, call, attempt, use_cache, element, result,
               modelCalls, scrolls, screenshots, cacheHit, responses, answer>>
diskVars == <<file_complete, flush_pc, fault, raised>>
writerVars == <<other_open, other_caches>>
bboxVars == <<bbox_in, rect_out>>
deviceVars == <<click_pc, click_ret, clicked_positions>>
idVars == <<cache_id_arg, cache_id>>
recVars == <<steps, current_step, step_pc, step_call, step_ret>>
aiVars == <<ai_pc, ai_config, max_attempts, ai_attempt, last_error, requests, sleeps,
            ai_result>>
extVars == <<diskVars, writerVars, bboxVars, deviceVars, idVars, recVars, aiVars>>
vars == <<file, cacheVars, last, agentVars, extVars>>

read_only_mode == strategy = "read-only"
write_only_mode == strategy = "write-only"

\* --------------------------------------------------------- serialisation
\* json.dumps(prompt, sort_keys=True) of the one-key dict {"k": text}.
JsonDumps(p) == "{\"k\": \"" \o p.text \o "\"}"

\* prompt if isinstance(prompt, str) else json.dumps(prompt, sort_keys=True)
PromptStr(p) == IF p.dict THEN JsonDumps(p) ELSE p.text

\* Mutant of DumpItem: the plan entry is written under the internal field name.
DumpItem_InternalName(item) ==
  IF item.type = "plan"
    THEN [type |-> "plan", prompt |-> item.prompt, yaml_workflow |-> item.yaml_workflow]
    ELSE [type |-> "locate", prompt |-> item.prompt, cache |-> item.cache]

\* One entry of data["caches"] as _flush_cache_to_file builds it.
DumpItem(item) ==
  IF item.type = "plan"
    THEN [type |-> "plan", prompt |-> item.prompt, yamlWorkflow |-> item.yaml_workflow]
    ELSE [type |-> "locate", prompt |-> item.prompt, cache |-> item.cache]

DumpAll_Reversed(items) ==
  [i \in 1..Len(items) |-> DumpItem(items[Len(items) + 1 - i])]

RECURSIVE DumpAll(_)
DumpAll(items) ==
  IF items = <<>> THEN <<>> ELSE <<DumpItem(Head(items))>> \o DumpAll(Tail(items))

\* The document _flush_cache_to_file writes: the whole list, every time.
FlushDoc(items) == [exists |-> TRUE, caches |-> DumpAll(items)]

\* One document entry parsed back by _load_cache_from_file.
\* item.get(key, default) of a document entry.
Get(d, key, default) == IF key \in DOMAIN d THEN d[key] ELSE default

LoadItem(d) ==
  IF d.type = "plan"
    THEN PlanningCache(Get(d, "prompt", Str("")), Get(d, "yamlWorkflow", ""))
    ELSE LocateCache(Get(d, "prompt", Str("")), Get(d, "cache", None))

RECURSIVE LoadAll(_)
LoadAll(docs) ==
  IF docs = <<>> THEN <<>>
  ELSE IF Head(docs).type \in CacheTypes
    THEN <<LoadItem(Head(docs))>> \o LoadAll(Tail(docs))
    ELSE LoadAll(Tail(docs))

\* Why a file that exists does not load: open raises, yaml.safe_load raises,
\* or the document is not a mapping and data.get raises.
Damages == {"unreadable", "unparseable", "not_a_mapping"}

\* Whether the file is one that does not load; such a file carries the reason.
Damaged(f) == "damage" \in DOMAIN f

\* Mutant of LoadCacheFromFile: the entries of a damaged file are loaded.
LoadCacheFromFile_IgnoreDamage(f) == IF f.exists THEN LoadAll(f.caches) ELSE <<>>

\* _load_cache_from_file: None (here the empty list) when there is no file,
\* and when reading or parsing it raises: the except clause logs and returns
\* None.
LoadCacheFromFile(f) ==
  IF f.exists /\ ~Damaged(f) THEN LoadAll(f.caches) ELSE <<>>

\* The entry list __init__ starts from: loading is skipped under write-only.
InitialCaches(f, strat) ==
  IF strat = "write-only" THEN <<>> ELSE LoadCacheFromFile(f)

\* Mutant of ResultUsed: write-only does not switch result use off.
ResultUsed_IgnoreStrategy(strat, used) == used

\* self.is_cache_result_used as __init__ sets it.
ResultUsed(strat, used) == IF strat = "write-only" THEN FALSE ELSE used

\* self.cache_original_length as __init__ sets it.
OriginalLength(items, resultUsed) == IF resultUsed THEN Len(items) ELSE 0

\* ------------------------------------------------------------ match_cache
\* The ledger key f"{cache_type}:{prompt_str}:{i}" (i is 1-based here).
Key(type, prompt, i) == <<type, PromptStr(prompt), i>>

\* Mutant of Matches: the consumption ledger is not consulted.
Matches_NoLedger(items, ledger, type, prompt, i) ==
  /\ items[i].type = type
  /\ PromptStr(items[i].prompt) = PromptStr(prompt)

\* Whether the scan of match_cache accepts index i.
Matches(items, ledger, type, prompt, i) ==
  /\ items[i].type = type
  /\ PromptStr(items[i].prompt) = PromptStr(prompt)
  /\ Key(type, prompt, i) \notin ledger

\* Mutant of ScanRange: the scan runs over the whole list, appended entries included.
ScanRange_WholeList(items, origLen) == 1..Len(items)

\* The range the scan of match_cache runs over: range(self.cache_original_length).
ScanRange(items, origLen) == 1..origLen

\* The index match_cache returns (0 for None).
MatchIndex(items, origLen, ledger, resultUsed, type, prompt) ==
  IF ~resultUsed THEN 0
  ELSE LET hits == {i \in ScanRange(items, origLen) : Matches(items, ledger, type, prompt, i)}
       IN IF hits = {} THEN 0 ELSE CHOOSE i \in hits : \A j \in hits : i <= j

\* Mutant of Consume: a returned index is not marked as used.
Consume_Forget(ledger, type, prompt, i) == ledger

\* Mutant of Consume: a key is added also when nothing matched.
Consume_OnMiss(ledger, type, prompt, i) == ledger \cup {Key(type, prompt, i)}

\* The ledger after match_cache returned index i.
Consume(ledger, type, prompt, i) ==
  IF i = 0 THEN ledger ELSE ledger \cup {Key(type, prompt, i)}

\* Mutant of Persist: the flush re-reads the file and adds the newest entry
\* to what it holds.
Persist_Merging(f, items, strat) ==
  IF strat = "read-only" THEN f
  ELSE FlushDoc(LoadCacheFromFile(f) \o <<items[Len(items)]>>)

\* Mutant of Persist: the read-only early return is missing.
Persist_Always(f, items, strat) == FlushDoc(items)

\* The file after a mutation of the entry list: read-only never flushes.
Persist(f, items, strat) == IF strat = "read-only" THEN f ELSE FlushDoc(items)

\* Whether two entries have the same type and the same prompt.
SameTag(a, b) == a.type = b.type /\ a.prompt = b.prompt

\* The indices whose update_fn closure some match_cache call has returned.
Handles == {key[3] : key \in matched_cache_indices}

Queries == CacheTypes \X Prompts
\* The pairs whose calls are observed: with a dict prompt, one type is enough.
ObservedQueries == Queries \ {<<"plan", Dict("a")>>}
Saturate(n) == IF n > MaxEntries THEN MaxEntries + 1 ELSE n

\* -------------------------------------------------------------- the page
\* The positions a model answer can point at: each is one element's box.
Elems == {1, 2}

\* The bbox [x1, y1, x2, y2] of each element, in absolute pixels.
Bbox(e) == IF e = 1 THEN <<100, 200, 300, 250>> ELSE <<400, 300, 500, 340>>

\* int(size.get('width', 1280)), int(size.get('height', 800))
ImgWidth == 1280
ImgHeight == 800

Min(a, b) == IF a <= b THEN a ELSE b

Max_Second(a, b) == b

Max(a, b) == IF a >= b THEN a ELSE b

\* DEFAULT_BBOX_SIZE
DEFAULT_BBOX_SIZE == 20

\* The bbox values a model answer can carry: a list of numbers, a list nested
\* in a list, or a string of number tokens separated by sep.
BboxList(nums) == [form |-> "list", nums |-> nums, sep |-> ","]
BboxNested(nums) == [form |-> "nested", nums |-> nums, sep |-> ","]
BboxString(nums, sep) == [form |-> "string", nums |-> nums, sep |-> sep]

\* What a function that can raise gives: a box, or the exception.
Ok(box) == [ok |-> TRUE, box |-> box]
Raise == [ok |-> FALSE, box |-> <<>>]

Round_Floor(n, d) == n \div d

\* Python's round(n / d) for d > 0: to the nearest integer, ties to even.
Round(n, d) ==
  LET q == n \div d
      r == n % d
  IN IF 2 * r < d THEN q
     ELSE IF 2 * r > d THEN q + 1
     ELSE IF q % 2 = 0 THEN q ELSE q + 1

\* normalize_bbox_input: a list nested in a list is unwrapped.
NormalizeBboxInput(bbox) ==
  IF bbox.form = "nested" THEN BboxList(bbox.nums) ELSE bbox

\* is_ui_tars
IsUiTars(model_family) ==
  model_family \in {"vlm-ui-tars", "vlm-ui-tars-doubao", "vlm-ui-tars-doubao-1.5"}

AdaptDoubaoBbox_FirstFour(bbox, width, height) ==
  LET n == bbox.nums
      Box(i, j) == Ok(<<Round(n[1] * width, 1000), Round(n[2] * height, 1000),
                        Round(n[i] * width, 1000), Round(n[j] * height, 1000)>>)
  IN IF bbox.form = "string"
       THEN IF bbox.sep = " " /\ Len(n) = 4 THEN Box(3, 4) ELSE Raise
     ELSE IF Len(n) \in {4, 5} THEN Box(3, 4)
     ELSE IF Len(n) \in {2, 3, 6, 7}
       THEN LET half_size == DEFAULT_BBOX_SIZE \div 2
                center_x == Round(n[1] * width, 1000)
                center_y == Round(n[2] * height, 1000)
            IN Ok(<<Max(0, center_x - half_size), Max(0, center_y - half_size),
                    Min(width, center_x + half_size), Min(height, center_y + half_size)>>)
     ELSE IF Len(n) = 8 THEN Box(3, 4)
     ELSE Raise

\* adapt_doubao_bbox: 0-1000 coordinates; 4 or 5 numbers are a box, 2, 3, 6
\* or 7 a center point, 8 the corners of a quadrilateral; a string must be
\* four integers separated by single whitespace.
AdaptDoubaoBbox(bbox, width, height) ==
  LET n == bbox.nums
      Box(i, j) == Ok(<<Round(n[1] * width, 1000), Round(n[2] * height, 1000),
                        Round(n[i] * width, 1000), Round(n[j] * height, 1000)>>)
  IN IF bbox.form = "string"
       THEN IF bbox.sep = " " /\ Len(n) = 4 THEN Box(3, 4) ELSE Raise
     ELSE IF Len(n) \in {4, 5} THEN Box(3, 4)
     ELSE IF Len(n) \in {2, 3, 6, 7}
       THEN LET half_size == DEFAULT_BBOX_SIZE \div 2
                center_x == Round(n[1] * width, 1000)
                center_y == Round(n[2] * height, 1000)
            IN Ok(<<Max(0, center_x - half_size), Max(0, center_y - half_size),
                    Min(width, center_x + half_size), Min(height, center_y + half_size)>>)
     ELSE IF Len(n) = 8 THEN Box(5, 6)
     ELSE Raise

AdaptGeminiBbox_NoSwap(n, width, height) ==
  IF Len(n) < 4 THEN Raise
  ELSE Ok(<<Round(n[1] * width, 1000), Round(n[2] * height, 1000),
            Round(n[3] * width, 1000), Round(n[4] * height, 1000)>>)

\* adapt_gemini_bbox: [y1, x1, y2, x2] on the 0-1000 scale.
AdaptGeminiBbox(n, width, height) ==
  IF Len(n) < 4 THEN Raise
  ELSE Ok(<<Round(n[2] * width, 1000), Round(n[1] * height, 1000),
            Round(n[4] * width, 1000), Round(n[3] * height, 1000)>>)

AdaptQwen25Bbox_NeedsFour(n) ==
  IF Len(n) < 4 THEN Raise ELSE Ok(<<n[1], n[2], n[3], n[4]>>)

\* adapt_qwen2_5_bbox: absolute pixels; a missing x2 or y2 is the first point
\* plus DEFAULT_BBOX_SIZE.
AdaptQwen25Bbox(n) ==
  IF Len(n) < 2 THEN Raise
  ELSE Ok(<<n[1], n[2],
            IF Len(n) > 2 THEN n[3] ELSE n[1] + DEFAULT_BBOX_SIZE,
            IF Len(n) > 3 THEN n[4] ELSE n[2] + DEFAULT_BBOX_SIZE>>)

\* normalized_0_1000: [x1, y1, x2, y2] on the 0-1000 scale.
Normalized01000(n, width, height) ==
  Ok(<<Round(n[1] * width, 1000), Round(n[2] * height, 1000),
       Round(n[3] * width, 1000), Round(n[4] * height, 1000)>>)

\* adapt_bbox: the box of the family's decoder, its right and bottom clamped
\* to the limits.
AdaptBbox(bbox, width, height, right_limit, bottom_limit, model_family) ==
  LET normalized_bbox == NormalizeBboxInput(bbox)
      n == normalized_bbox.nums
      decoded ==
        IF model_family = "doubao-vision" \/ IsUiTars(model_family)
          THEN AdaptDoubaoBbox(normalized_bbox, width, height)
        ELSE IF model_family = "gemini" THEN AdaptGeminiBbox(n, width, height)
        ELSE IF model_family = "qwen2.5-vl" THEN AdaptQwen25Bbox(n)
        ELSE IF normalized_bbox.form = "string" /\ Len(n) # 4 THEN Raise
        ELSE IF Len(n) >= 4 THEN Normalized01000(n, width, height)
        ELSE Raise
  IN IF decoded.ok
       THEN Ok(<<decoded.box[1], decoded.box[2],
                 Min(decoded.box[3], right_limit), Min(decoded.box[4], bottom_limit)>>)
       ELSE Raise

ModelFamily_Unset == None

\* model_family = config.model_family or "qwen2.5-vl"
ModelFamily == "qwen2.5-vl"

\* ai_locate, from the bbox of the answer to the box it formats: adapt_bbox,
\* and on an exception the raw values, which format_bbox takes only as four.
LocateBbox(bbox) ==
  LET adapted == AdaptBbox(bbox, ImgWidth, ImgHeight, ImgWidth, ImgHeight, ModelFamily)
  IN IF adapted.ok THEN adapted
     ELSE IF bbox.form = "list" /\ Len(bbox.nums) = 4 THEN Ok(bbox.nums)
     ELSE Raise

FormatBbox_Corners(bbox) ==
  [left |-> bbox[1], top |-> bbox[2], width |-> bbox[3], height |-> bbox[4]]

\* format_bbox
FormatBbox(bbox) ==
  [left |-> bbox[1], top |-> bbox[2], width |-> bbox[3] - bbox[1],
   height |-> bbox[4] - bbox[2]]

\* calculate_center (the boxes of the model have even sides)
CalculateCenter(rect) ==
  <<rect.left + rect.width \div 2, rect.top + rect.height \div 2>>

\* An Optional[...] return value that is None, and the outcomes of a call
\* that has not returned one: still running, or left by an exception.
NoElement == [type |-> "None"]
Pending == [type |-> "pending"]
Raised == [type |-> "raised"]

\* LocateResultElement(description, center, rect)
LocateResultElement(prompt, center, rect) ==
  [type |-> "element", description |-> prompt, center |-> center, rect |-> rect]

\* The pages: every DOM node has its own xpath.
Pages ==
  {pg \in [Elems -> XPaths \cup {None}] :
     \A e1, e2 \in Elems : (e1 # e2 /\ pg[e1] # None) => pg[e1] # pg[e2]}

\* interface.get_element_xpath(x, y): the xpath of the node at the point.
GetElementXPath(pg, point) ==
  LET at == {e \in Elems : CalculateCenter(FormatBbox(Bbox(e))) = point}
  IN IF at = {} THEN None ELSE pg[CHOOSE e \in at : TRUE]

\* interface.get_element_by_xpath(xpath): {"rect", "center"} of the node, or None.
GetElementByXPath(pg, xpath) ==
  LET at == {e \in Elems : pg[e] = xpath}
  IN IF at = {} THEN NoElement
     ELSE LET rect == FormatBbox(Bbox(CHOOSE e \in at : TRUE))
          IN [type |-> "info", rect |-> rect, center |-> CalculateCenter(rect)]

\* What the model call can do: fail in transport, answer without a bbox
\* field, or answer with a bbox: an empty one, one of a single number, one
\* the decoder of the family cannot take, a point [x, y], or the box of an
\* element.
ModelResponses ==
  {[kind |-> "error"], [kind |-> "nobbox"],
   [kind |-> "empty", bbox |-> BboxList(<<>>)],
   [kind |-> "short", bbox |-> BboxList(<<100>>)],
   [kind |-> "malformed", bbox |-> BboxString(<<100>>, " ")],
   [kind |-> "point", bbox |-> BboxList(<<100, 200>>)]}
    \cup {[kind |-> "bbox", bbox |-> BboxList(Bbox(e))] : e \in Elems}

\* The class of a response: the answers without a usable bbox (no bbox
\* field, an empty bbox, fewer than 2 numbers) are one class, the answers
\* with a point or a box another.
ResponseClass(kind) ==
  IF kind \in {"nobbox", "empty", "short"} THEN "nobbox"
  ELSE IF kind = "point" THEN "bbox" ELSE kind

\* len(bbox) of the answer's bbox: a nested list holds one list.
OuterLen(bbox) == IF bbox.form = "nested" THEN 1 ELSE Len(bbox.nums)

\* Mutant of InvalidBbox: the test for fewer than 2 numbers is missing.
InvalidBbox_OnlyEmpty(bbox) == OuterLen(bbox) = 0

\* not bbox or (isinstance(bbox, list) and len(bbox) < 2)
InvalidBbox(bbox) ==
  \/ OuterLen(bbox) = 0
  \/ bbox.form \in {"list", "nested"} /\ OuterLen(bbox) < 2

\* --------------------------------------------------------------- the Agent
\* The disk works, no second instance exists, and adapt_bbox is not called.
\* SessionRecorder.__init__: no step yet, and no recorded call.
NoRecorder ==
  /\ steps = <<>>
  /\ current_step = 0
  /\ step_pc = "idle"
  /\ step_call = [kind |-> "none"]
  /\ step_ret = "none"

\* No call_ai call is running and none has run.
NoCallAi ==
  /\ ai_pc = "idle"
  /\ ai_config = [retry_count |-> 0, retry_interval |-> 0]
  /\ max_attempts = 0
  /\ ai_attempt = 0
  /\ last_error = None
  /\ requests = <<>>
  /\ sleeps = <<>>
  /\ ai_result = [state |-> "none"]

NoExt ==
  /\ file_complete = TRUE
  /\ flush_pc = "idle"
  /\ fault = "none"
  /\ raised = FALSE
  /\ other_open = FALSE
  /\ other_caches = <<>>
  /\ bbox_in = [model_family |-> "none"]
  /\ rect_out = [state |-> "none"]
  /\ click_pc = "idle"
  /\ click_ret = "none"
  /\ clicked_positions = <<>>
  /\ cache_id_arg = <<>>
  /\ cache_id = [state |-> "none"]
  /\ NoRecorder
  /\ NoCallAi

\* No call is running and none has run.
NoCall ==
  /\ pc = "idle"
  /\ call = [kind |-> "none"]
  /\ attempt = 0
  /\ use_cache = FALSE
  /\ element = NoElement
  /\ result = NoElement
  /\ modelCalls = 0
  /\ scrolls = 0
  /\ screenshots = 0
  /\ cacheHit = "none"
  /\ responses = {}
  /\ answer = "none"

\* ---------------------------------------------------------------- actions
\* TaskCache.__init__ on the file as it stands.
Construct(strat, used) ==
  LET items == InitialCaches(file, strat)
      ru == ResultUsed(strat, used)
  IN /\ strategy' = strat
     /\ is_cache_result_used' = ru
     /\ caches' = items
     /\ cache_original_length' = OriginalLength(items, ru)
     /\ matched_cache_indices' = {}
     /\ loaded' = items
     /\ matchCalls' = 0
     /\ retags' = 0
     /\ UNCHANGED file

Open ==
  \E strat \in Strategies, used \in BOOLEAN :
    /\ Construct(strat, used)
    /\ UNCHANGED focus
    /\ last' = [op |-> "open"]
    /\ UNCHANGED <<agentVars, extVars>>

\* TaskCache.match_cache(prompt, cache_type)
MatchCache ==
  \E type \in CacheTypes, prompt \in Prompts :
    LET i == MatchIndex(caches, cache_original_length, matched_cache_indices,
                        is_cache_result_used, type, prompt)
        k == IF <<type, prompt>> = focus THEN Saturate(matchCalls + 1) ELSE matchCalls
    IN /\ matched_cache_indices' = Consume(matched_cache_indices, type, prompt, i)
       /\ matchCalls' = k
       /\ last' = IF <<type, prompt>> = focus
                    THEN [op |-> "match", index |-> i]
                    ELSE [op |-> "other_match"]
       /\ UNCHANGED <<file, caches, cache_original_length, strategy,
                      is_cache_result_used, loaded, focus, retags>>
       /\ UNCHANGED <<agentVars, extVars>>

\* TaskCache.append_cache(cache)
AppendCache ==
  \E item \in EntryInputs :
    /\ Len(caches) < MaxEntries
    /\ caches' = Append(caches, item)
    /\ file' = Persist(file, caches', strategy)
    /\ last' = [op |-> "append"]
    /\ UNCHANGED <<cache_original_length, matched_cache_indices, strategy,
                   is_cache_result_used, loaded, focus, matchCalls, retags>>
    /\ UNCHANGED <<agentVars, extVars>>

\* Mutant of ReplaceAt: the new entry is appended instead of stored at i.
ReplaceAt_Append(items, i, item) == Append(items, item)

\* self.cache.caches[i] = cache_item
ReplaceAt(items, i, item) == [items EXCEPT ![i] = item]

\* update_fn(cache_item) of a MatchCacheResult returned earlier for index i.
UpdateFn ==
  \E i \in Handles, item \in EntryInputs :
    /\ retags' = retags + (IF SameTag(item, caches[i]) THEN 0 ELSE 1)
    /\ retags' <= MaxRetags
    /\ caches' = ReplaceAt(caches, i, item)
    /\ file' = Persist(file, caches', strategy)
    /\ last' = [op |-> "update", index |-> i, item |-> item]
    /\ UNCHANGED <<cache_original_length, matched_cache_indices, strategy,
                   is_cache_result_used, loaded, focus, matchCalls>>
    /\ UNCHANGED <<agentVars, extVars>>

Init ==
  /\ file = [exists |-> FALSE, caches |-> <<>>]
  /\ \E strat \in Strategies, used \in BOOLEAN :
       /\ strategy = strat
       /\ is_cache_result_used = ResultUsed(strat, used)
  /\ caches = <<>>
  /\ cache_original_length = 0
  /\ matched_cache_indices = {}
  /\ loaded = <<>>
  /\ focus \in ObservedQueries
  /\ matchCalls = 0
  /\ retags = 0
  /\ last = [op |-> "open"]
  /\ NoCall
  /\ has_task_cache = TRUE
  /\ page = [e \in Elems |-> None]
  /\ NoExt

Next == Open \/ MatchCache \/ AppendCache \/ UpdateFn

Spec == Init /\ [][Next]_vars

\* ------------------------------------------- a cache file that does not load
\* The files a TaskCache can find damaged: a document of earlier entries that
\* cannot be opened, or that was damaged so that it does not parse.
DamagedFiles ==
  {[exists |-> TRUE, caches |-> <<DumpItem(item)>>, damage |-> d] :
     item \in EntryInputs, d \in Damages}

\* The state after TaskCache.__init__ found a damaged file.
InitDamaged ==
  /\ file \in DamagedFiles
  /\ \E strat \in Strategies, used \in BOOLEAN :
       /\ strategy = strat
       /\ is_cache_result_used = ResultUsed(strat, used)
       /\ caches = InitialCaches(file, strat)
       /\ cache_original_length = OriginalLength(caches, is_cache_result_used)
  /\ matched_cache_indices = {}
  /\ loaded = caches
  /\ focus \in ObservedQueries
  /\ matchCalls = 0
  /\ retags = 0
  /\ last = [op |-> "open"]
  /\ NoCall
  /\ has_task_cache = TRUE
  /\ page = [e \in Elems |-> None]
  /\ NoExt

SpecDamaged == InitDamaged /\ [][Next]_vars

\* ------------------------------------------- the cache on a disk that fails
\* _flush_cache_to_file up to open(path, 'w'): the mkdir of the parent directory
\* is outside the try and its exception leaves the call; an exception of
\* open is caught and logged; a successful open truncates the file, and
\* yaml.dump then writes the document into it.
BeginFlush ==
  \/ /\ fault' = "mkdir"
     /\ raised' = TRUE
     /\ UNCHANGED <<file, file_complete, flush_pc>>
  \/ /\ fault' = "open"
     /\ raised' = FALSE
     /\ UNCHANGED <<file, file_complete, flush_pc>>
  \/ /\ fault' = "none"
     /\ raised' = FALSE
     /\ file' = [exists |-> TRUE, caches |-> <<>>]
     /\ file_complete' = FALSE
     /\ flush_pc' = "writing"

\* The early return of append_cache and update_fn under read-only.
SkipFlush ==
  /\ fault' = "none"
  /\ raised' = FALSE
  /\ UNCHANGED <<file, file_complete, flush_pc>>

\* The process that holds the instance is alive and not inside a call.
Ready == flush_pc = "idle" /\ fault # "crash"

\* TaskCache(...) in a new process, after whatever happened to the file.
DiskConstruct ==
  /\ flush_pc = "idle"
  /\ \E strat \in Strategies : Construct(strat, TRUE)
  /\ fault' = "none"
  /\ raised' = FALSE
  /\ last' = [op |-> "open"]
  /\ UNCHANGED <<focus, file_complete, flush_pc, agentVars, writerVars, bboxVars, deviceVars, idVars, recVars, aiVars>>

\* match_cache: it touches no file.
DiskMatch ==
  /\ Ready
  /\ MatchCache

\* append_cache(cache): the list grows, then the flush starts.
DiskAppend ==
  /\ Ready
  /\ Len(caches) < MaxEntries
  /\ \E item \in EntryInputs :
       /\ caches' = Append(caches, item)
       /\ last' = [op |-> "append", item |-> item]
  /\ IF read_only_mode THEN SkipFlush ELSE BeginFlush
  /\ UNCHANGED <<cache_original_length, matched_cache_indices, strategy,
                 is_cache_result_used, loaded, focus, matchCalls, retags,
                 agentVars, writerVars, bboxVars, deviceVars, idVars, recVars, aiVars>>

\* update_fn(cache_item): the slot is replaced, then the flush starts.
DiskUpdate ==
  /\ Ready
  /\ \E i \in Handles, item \in EntryInputs :
       /\ retags' = retags + (IF SameTag(item, caches[i]) THEN 0 ELSE 1)
       /\ retags' <= MaxRetags
       /\ caches' = ReplaceAt(caches, i, item)
       /\ last' = [op |-> "update", index |-> i, item |-> item]
  /\ IF read_only_mode THEN SkipFlush ELSE BeginFlush
  /\ UNCHANGED <<cache_original_length, matched_cache_indices, strategy,
                 is_cache_result_used, loaded, focus, matchCalls,
                 agentVars, writerVars, bboxVars, deviceVars, idVars, recVars, aiVars>>

\* yaml.dump(data, f): the next entry of the document reaches the file; after
\* the last one the file is closed and the call returns.
DiskWrite ==
  /\ flush_pc = "writing"
  /\ LET doc == DumpAll(caches)
         k == Len(file.caches) + 1
     IN /\ file' = [exists |-> TRUE, caches |-> Append(file.caches, doc[k])]
        /\ file_complete' = (k = Len(doc))
        /\ flush_pc' = IF k = Len(doc) THEN "idle" ELSE "writing"
  /\ UNCHANGED <<cacheVars, last, fault, raised, agentVars, writerVars, bboxVars, deviceVars, idVars, recVars, aiVars>>

\* yaml.dump or the close of the file raises (disk full, I/O error): the
\* except clause logs it, and the call returns.
DiskWriteFails ==
  /\ flush_pc = "writing"
  /\ fault' = "write"
  /\ raised' = FALSE
  /\ flush_pc' = "idle"
  /\ UNCHANGED <<file, file_complete, cacheVars, last, agentVars, writerVars, bboxVars, deviceVars, idVars, recVars, aiVars>>

\* The process dies during the write.
DiskCrash ==
  /\ flush_pc = "writing"
  /\ fault' = "crash"
  /\ flush_pc' = "idle"
  /\ UNCHANGED <<file, file_complete, raised, cacheVars, last, agentVars, writerVars, bboxVars, deviceVars, idVars, recVars, aiVars>>

NextDisk ==
  \/ DiskConstruct
  \/ DiskMatch
  \/ DiskAppend
  \/ DiskUpdate
  \/ DiskWrite
  \/ DiskWriteFails
  \/ DiskCrash

SpecDisk == Init /\ [][NextDisk]_vars

\* ------------------------------------------------ two writers on one file
\* The first instance is the one of the cache variables; the second one, in
\* another process, has its own entry list.  Each call runs to its end
\* before the other process makes one.
WriterOpenA ==
  /\ Construct("read-write", TRUE)
  /\ last' = [op |-> "open"]
  /\ UNCHANGED <<focus, agentVars, extVars>>

\* TaskCache(cache_id, strategy="read-write") in the second process.
WriterOpenB ==
  /\ other_open' = TRUE
  /\ other_caches' = InitialCaches(file, "read-write")
  /\ last' = [op |-> "open"]
  /\ UNCHANGED <<file, cacheVars, agentVars, diskVars, bboxVars, deviceVars, idVars, recVars, aiVars>>

\* append_cache of the first instance.
WriterAppendA ==
  /\ Len(caches) < MaxEntries
  /\ \E item \in EntryInputs :
       /\ caches' = Append(caches, item)
       /\ last' = [op |-> "append", who |-> "A", item |-> item]
  /\ file' = Persist(file, caches', strategy)
  /\ UNCHANGED <<cache_original_length, matched_cache_indices, strategy,
                 is_cache_result_used, loaded, focus, matchCalls, retags,
                 agentVars, extVars>>

\* append_cache of the second instance.
WriterAppendB ==
  /\ other_open
  /\ Len(other_caches) < MaxEntries
  /\ \E item \in EntryInputs :
       /\ other_caches' = Append(other_caches, item)
       /\ last' = [op |-> "append", who |-> "B", item |-> item]
  /\ file' = Persist(file, other_caches', "read-write")
  /\ UNCHANGED <<cacheVars, other_open, agentVars, diskVars, bboxVars, deviceVars, idVars, recVars, aiVars>>

InitWriters ==
  /\ Init
  /\ strategy = "read-write"
  /\ is_cache_result_used

NextWriters ==
  \/ WriterOpenA
  \/ WriterOpenB
  \/ WriterAppendA
  \/ WriterAppendB

SpecWriters == InitWriters /\ [][NextWriters]_vars

\* ------------------------------------------------------------ the cache id
\* A string is a sequence of runs <<character, count>>: count times the
\* character. The characters of a cache_id argument: a letter, two of the
\* characters _sanitize_cache_id replaces, a space, and a character of 4
\* UTF-8 bytes.
IdChars == {"a", "/", ":", " ", "emoji"}

\* illegal_chars = '<>:"|?*\\/\n\r\t'
IllegalChars == {"<", ">", ":", "\"", "|", "?", "*", "\\", "/", "\n", "\r", "\t"}

\* The run lengths: around the 32 characters of the prefix and the 200
\* bytes of the limit (50 characters of 4 bytes are 200 bytes).
RunLens == {1, 32, 33, 50, 51, 200, 201}

\* The cache_id arguments: the empty string and the strings of up to
\* MaxRuns runs.
IdArgs == UNION {[1..n -> IdChars \X RunLens] : n \in 0..MaxRuns}

\* len(ch.encode('utf-8'))
Utf8Len(ch) == IF ch = "emoji" THEN 4 ELSE 1

\* len(s.encode('utf-8'))
RECURSIVE ByteLength(_)
ByteLength(s) ==
  IF s = <<>> THEN 0 ELSE s[1][2] * Utf8Len(s[1][1]) + ByteLength(Tail(s))

\* len(s)
RECURSIVE CharLength(_)
CharLength(s) == IF s = <<>> THEN 0 ELSE s[1][2] + CharLength(Tail(s))

\* s.replace(old, new) for one character
Replace(s, old, new) ==
  [i \in 1..Len(s) |-> IF s[i][1] = old THEN <<new, s[i][2]>> ELSE s[i]]

\* TaskCache._sanitize_cache_id: each illegal character becomes "_", then
\* each space "-".
SanitizeCacheId(id) ==
  LET safe_id == [i \in 1..Len(id) |->
                   IF id[i][1] \in IllegalChars THEN <<"_", id[i][2]>> ELSE id[i]]
  IN Replace(safe_id, " ", "-")

Prefix_Whole(s, k) == s

\* s[:k]: the first k characters.
RECURSIVE Prefix(_, _)
Prefix(s, k) ==
  IF s = <<>> \/ k = 0 THEN <<>>
  ELSE IF s[1][2] >= k THEN << <<s[1][1], k>> >>
  ELSE <<s[1]>> \o Prefix(Tail(s), k - s[1][2])

\* calculate_hash(text)[:8]: 8 hexadecimal digits of the MD5 digest.
HashSuffix(s) == << <<"hex", 8>> >>

\* DEFAULT_CACHE_MAX_FILENAME_LENGTH
DEFAULT_CACHE_MAX_FILENAME_LENGTH == 200

\* TaskCache.__init__, the cache id: sanitized, and cut to a prefix of 32
\* characters, "-" and the hash suffix when longer than the limit in bytes.
SafeCacheId(id) ==
  LET safe_cache_id == SanitizeCacheId(id)
  IN IF ByteLength(safe_cache_id) > DEFAULT_CACHE_MAX_FILENAME_LENGTH
       THEN Prefix(safe_cache_id, 32) \o << <<"-", 1>> >> \o HashSuffix(safe_cache_id)
       ELSE safe_cache_id

\* TaskCache(cache_id): an empty cache_id raises ValueError.
SetCacheId ==
  /\ cache_id.state = "none"
  /\ cache_id' = IF cache_id_arg = <<>> THEN [state |-> "raised"]
                 ELSE [state |-> "set", id |-> SafeCacheId(cache_id_arg)]
  /\ UNCHANGED <<file, cacheVars, last, agentVars, diskVars, writerVars, bboxVars,
                 deviceVars, cache_id_arg, recVars, aiVars>>

InitCacheId ==
  /\ file = [exists |-> FALSE, caches |-> <<>>]
  /\ strategy = "read-write"
  /\ is_cache_result_used = TRUE
  /\ caches = <<>>
  /\ cache_original_length = 0
  /\ matched_cache_indices = {}
  /\ loaded = <<>>
  /\ focus = <<"locate", Str("a")>>
  /\ matchCalls = 0
  /\ retags = 0
  /\ last = [op |-> "open"]
  /\ NoCall
  /\ has_task_cache = FALSE
  /\ page = [e \in Elems |-> None]
  /\ file_complete = TRUE
  /\ flush_pc = "idle"
  /\ fault = "none"
  /\ raised = FALSE
  /\ other_open = FALSE
  /\ other_caches = <<>>
  /\ bbox_in = [model_family |-> "none"]
  /\ rect_out = [state |-> "none"]
  /\ click_pc = "idle"
  /\ click_ret = "none"
  /\ clicked_positions = <<>>
  /\ cache_id_arg \in IdArgs
  /\ cache_id = [state |-> "none"]
  /\ NoRecorder
  /\ NoCallAi

NextCacheId == SetCacheId

SpecCacheId == InitCacheId /\ [][NextCacheId]_vars

\* ------------------------------------------------- the coordinate adapter
\* The model families: one per decoder, one more that is_ui_tars takes, and
\* no family at all (model_family = None).
Families == {"doubao-vision", "vlm-ui-tars", "gemini", "qwen2.5-vl", "qwen3-vl", None}

\* The coordinates a bbox is made of, on the models' 0-1000 scale (333 is
\* scaled to a pixel value that has to be rounded), and the numbers that fill
\* the places after the fourth.
Coords == {0, 100, 333, 500, 1000}
Filler == <<700, 900, 0, 0>>

\* The number lists of a bbox: every list of up to 4 coordinates, and the
\* lists of 4 followed by up to 4 more numbers.
NumLists ==
  LET short == UNION {[1..n -> Coords] : n \in 0..4}
  IN short \cup {n \o SubSeq(Filler, 1, k) : n \in [1..4 -> Coords], k \in 1..4}

\* The bbox values of a model answer.
BboxInputs ==
  {BboxList(n) : n \in NumLists} \cup {BboxNested(n) : n \in NumLists}
    \cup {BboxString(n, sep) : n \in NumLists, sep \in {" ", ","}}

\* The screenshot sizes.
ImageSizes == {<<1280, 800>>, <<1920, 1080>>}

\* The calls adapt_bbox(bbox, width, height, right_limit, bottom_limit,
\* model_family) with the limits ai_locate passes: the image's sides.
BboxCall(b, width, height, f) ==
  [bbox |-> b, width |-> width, height |-> height, right_limit |-> width,
   bottom_limit |-> height, model_family |-> f]

\* The boxes of the repository's tests and documentation.
DoubaoExample == BboxCall(BboxList(<<500, 300, 700, 400>>), 1920, 1080, "doubao-vision")
GeminiExample == BboxCall(BboxList(<<100, 200, 300, 400>>), 1000, 1000, "gemini")
QuadExample ==
  BboxCall(BboxList(<<100, 100, 200, 100, 200, 200, 100, 200>>), 1000, 1000, "doubao-vision")

BboxCalls ==
  {BboxCall(b, sz[1], sz[2], f) : b \in BboxInputs, sz \in ImageSizes, f \in Families}
    \cup {DoubaoExample, GeminiExample, QuadExample}

\* format_bbox(adapt_bbox(...)) for the call at hand.
FormatAdapted ==
  /\ rect_out.state = "none"
  /\ LET adapted == AdaptBbox(bbox_in.bbox, bbox_in.width, bbox_in.height,
                              bbox_in.right_limit, bbox_in.bottom_limit,
                              bbox_in.model_family)
     IN rect_out' = IF adapted.ok
                      THEN [state |-> "rect", rect |-> FormatBbox(adapted.box)]
                      ELSE [state |-> "raised"]
  /\ UNCHANGED <<file, cacheVars, last, agentVars, diskVars, writerVars, bbox_in,
                 deviceVars, idVars, recVars, aiVars>>

InitBbox ==
  /\ file = [exists |-> FALSE, caches |-> <<>>]
  /\ strategy = "read-write"
  /\ is_cache_result_used = TRUE
  /\ caches = <<>>
  /\ cache_original_length = 0
  /\ matched_cache_indices = {}
  /\ loaded = <<>>
  /\ focus = <<"locate", Str("a")>>
  /\ matchCalls = 0
  /\ retags = 0
  /\ last = [op |-> "open"]
  /\ NoCall
  /\ has_task_cache = FALSE
  /\ page = [e \in Elems |-> None]
  /\ file_complete = TRUE
  /\ flush_pc = "idle"
  /\ fault = "none"
  /\ raised = FALSE
  /\ other_open = FALSE
  /\ other_caches = <<>>
  /\ bbox_in \in BboxCalls
  /\ rect_out = [state |-> "none"]
  /\ click_pc = "idle"
  /\ click_ret = "none"
  /\ clicked_positions = <<>>
  /\ cache_id_arg = <<>>
  /\ cache_id = [state |-> "none"]
  /\ NoRecorder
  /\ NoCallAi

NextBbox == FormatAdapted

SpecBbox == InitBbox /\ [][NextBbox]_vars

\* ------------------------------------------------------ the Agent's calls
\* A new Agent has run no call.
ForgetCall ==
  /\ pc' = "idle"
  /\ call' = [kind |-> "none"]
  /\ attempt' = 0
  /\ use_cache' = FALSE
  /\ element' = NoElement
  /\ result' = NoElement
  /\ modelCalls' = 0
  /\ scrolls' = 0
  /\ screenshots' = 0
  /\ cacheHit' = "none"
  /\ responses' = {}
  /\ answer' = "none"

\* Agent.__init__: the TaskCache is built when a cache_id is given.
NewAgent ==
  /\ pc = "idle"
  /\ \/ /\ has_task_cache' = TRUE
        /\ \E cache_strategy \in Strategies :
             Construct(cache_strategy, cache_strategy # "write-only")
     \/ /\ has_task_cache' = FALSE
        /\ strategy' = "read-write"
        /\ is_cache_result_used' = FALSE
        /\ caches' = <<>>
        /\ cache_original_length' = 0
        /\ matched_cache_indices' = {}
        /\ loaded' = <<>>
        /\ matchCalls' = 0
        /\ retags' = 0
        /\ UNCHANGED file
  /\ ForgetCall
  /\ UNCHANGED <<focus, last, page>>
  /\ UNCHANGED extVars

\* The page changes between two calls (navigation, re-render).
PageChange ==
  /\ pc = "idle"
  /\ page' \in Pages \ {page}
  /\ UNCHANGED <<file, cacheVars, last, has_task_cache, pc, call, attempt, use_cache,
                 element, result, modelCalls, scrolls, screenshots, cacheHit, responses, answer>>
  /\ UNCHANGED extVars

\* The call's history starts empty.
BeginCall(c) ==
  /\ call' = c
  /\ attempt' = 0
  /\ element' = NoElement
  /\ result' = Pending
  /\ modelCalls' = 0
  /\ scrolls' = 0
  /\ screenshots' = 0
  /\ cacheHit' = "none"
  /\ responses' = {}
  /\ answer' = "none"

\* A caller calls ai_locate(prompt, use_cache).
StartLocate ==
  /\ pc = "idle"
  /\ \E prompt \in AgentPrompts, uc \in BOOLEAN :
       /\ BeginCall([kind |-> "locate", prompt |-> prompt, use_cache |-> uc,
                     max_scroll_attempts |-> 0])
       /\ use_cache' = uc
  /\ pc' = "cache"
  /\ UNCHANGED <<file, cacheVars, last, has_task_cache, page>>
  /\ UNCHANGED extVars

\* A caller calls ai_locate_with_scroll_retry(prompt, use_cache, max_scroll_attempts).
StartScrollRetry ==
  /\ pc = "idle"
  /\ \E prompt \in AgentPrompts, uc \in BOOLEAN, n \in 0..MaxAttempts :
       BeginCall([kind |-> "retry", prompt |-> prompt, use_cache |-> uc,
                  max_scroll_attempts |-> n])
  /\ use_cache' = FALSE
  /\ pc' = "loop"
  /\ UNCHANGED <<file, cacheVars, last, has_task_cache, page>>
  /\ UNCHANGED extVars

\* for attempt in range(max_scroll_attempts)
\* Mutant of InRange: the loop runs one attempt too many.
InRange_Inclusive(i, n) == i <= n
InRange(i, n) == i < n

ShouldUseCache_EveryAttempt(callerUseCache, i) == callerUseCache

\* should_use_cache = use_cache and (attempt == 0)
ShouldUseCache(callerUseCache, i) == callerUseCache /\ i = 0

\* for attempt in range(max_scroll_attempts): the next attempt, or the end of
\* the loop, where the call returns None.
LoopHead ==
  /\ pc = "loop"
  /\ IF InRange(attempt, call.max_scroll_attempts)
       THEN /\ use_cache' = ShouldUseCache(call.use_cache, attempt)
            /\ pc' = "cache"
            /\ UNCHANGED result
       ELSE /\ result' = NoElement
            /\ pc' = "idle"
            /\ UNCHANGED use_cache
  /\ UNCHANGED <<file, cacheVars, last, has_task_cache, page, call, attempt, element,
                 modelCalls, scrolls, screenshots, cacheHit, responses, answer>>
  /\ UNCHANGED extVars

\* xpaths[0] of a cached locator, None when it has none.
FirstXPath(item) ==
  IF "xpaths" \in DOMAIN item.cache /\ item.cache.xpaths # <<>>
    THEN item.cache.xpaths[1] ELSE None

\* Where ai_locate goes on after a cache hit whose xpath is not on the page:
\* on to the screenshot and the model call.
\* Mutant of AfterStaleHit: the stale hit makes ai_locate return None.
AfterStaleHit_GiveUp == "ret"
AfterStaleHit == "shot"

\* Where ai_locate goes on after a cache hit whose xpath resolves: it returns
\* the element.
\* Mutant of AfterResolvedHit: the early return is missing.
AfterResolvedHit_FallThrough == "shot"
AfterResolvedHit == "ret"

\* ai_locate, the cache check: a hit whose xpath resolves returns the element.
CacheLookup ==
  /\ pc = "cache"
  /\ IF use_cache /\ has_task_cache
       THEN LET i == MatchIndex(caches, cache_original_length, matched_cache_indices,
                                is_cache_result_used, "locate", call.prompt)
                xpath == IF i = 0 THEN None ELSE FirstXPath(caches[i])
                info == IF xpath = None THEN NoElement ELSE GetElementByXPath(page, xpath)
            IN /\ matched_cache_indices' =
                    Consume(matched_cache_indices, "locate", call.prompt, i)
               /\ matchCalls' = IF <<"locate", call.prompt>> = focus
                                  THEN Saturate(matchCalls + 1) ELSE matchCalls
               /\ IF info # NoElement
                    THEN /\ element' = LocateResultElement(call.prompt, info.center, info.rect)
                         /\ cacheHit' = "resolved"
                         /\ pc' = AfterResolvedHit
                    ELSE /\ element' = NoElement
                         /\ cacheHit' = IF xpath = None THEN cacheHit ELSE "stale"
                         /\ pc' = IF xpath = None THEN "shot" ELSE AfterStaleHit
       ELSE /\ pc' = "shot"
            /\ UNCHANGED <<matched_cache_indices, matchCalls, element, cacheHit>>
  /\ UNCHANGED <<file, caches, cache_original_length, strategy, is_cache_result_used,
                 loaded, focus, retags, last, has_task_cache, page, call, attempt,
                 use_cache, result, modelCalls, scrolls, screenshots, responses, answer>>
  /\ UNCHANGED extVars

\* ai_locate: interface.screenshot() and interface.get_size().
Screenshot ==
  /\ pc = "shot"
  /\ screenshots' = screenshots + 1
  /\ pc' = "ai"
  /\ UNCHANGED <<file, cacheVars, last, has_task_cache, page, call, attempt, use_cache,
                 element, result, modelCalls, scrolls, cacheHit, responses, answer>>
  /\ UNCHANGED extVars

\* Whether ai_locate appends to the cache once the model located this bbox.
WillAppend(bbox) ==
  /\ use_cache /\ has_task_cache
  /\ ~InvalidBbox(bbox)
  /\ LocateBbox(bbox).ok
  /\ GetElementXPath(page, CalculateCenter(FormatBbox(LocateBbox(bbox).box))) # None

\* Mutant of TransportErrorEscapes: the exception is caught and the attempt
\* counts as failed.
TransportErrorEscapes_Caught == FALSE

\* Whether an exception of _call_ai_with_config leaves ai_locate: no
\* try/except surrounds the call.
TransportErrorEscapes == TRUE

\* ai_locate: the model call and the parsing of its answer.  A transport
\* failure propagates out of the call; an answer without a usable bbox makes
\* ai_locate return None; an exception of format_bbox propagates.
CallModel ==
  /\ pc = "ai"
  /\ modelCalls' = modelCalls + 1
  /\ \E r \in ModelResponses :
       /\ responses' = responses \cup {ResponseClass(r.kind)}
       /\ answer' = r.kind
       /\ CASE r.kind = "error" ->
                 /\ result' = IF TransportErrorEscapes THEN Raised ELSE result
                 /\ element' = NoElement
                 /\ pc' = IF TransportErrorEscapes THEN "idle" ELSE "ret"
            [] r.kind = "nobbox" ->
                 /\ element' = NoElement
                 /\ pc' = "ret"
                 /\ UNCHANGED result
            [] OTHER ->
                 IF InvalidBbox(r.bbox)
                   THEN /\ element' = NoElement
                        /\ pc' = "ret"
                        /\ UNCHANGED result
                 ELSE IF ~LocateBbox(r.bbox).ok
                   THEN /\ result' = Raised
                        /\ element' = NoElement
                        /\ pc' = "idle"
                   ELSE /\ WillAppend(r.bbox) => Len(caches) < MaxEntries
                        /\ LET rect == FormatBbox(LocateBbox(r.bbox).box)
                           IN element' = LocateResultElement(call.prompt,
                                                            CalculateCenter(rect), rect)
                        /\ pc' = "save"
                        /\ UNCHANGED result
  /\ UNCHANGED <<file, cacheVars, last, has_task_cache, page, call, attempt, use_cache,
                 scrolls, screenshots, cacheHit>>
  /\ UNCHANGED extVars

\* Mutant of HasXPath: the entry is appended whatever get_element_xpath gave.
HasXPath_Always(xpath) == TRUE

\* if xpath:
HasXPath(xpath) == xpath # None

\* What the agent's append is remembered as: an append that follows a stale
\* cache hit of the same call is a re-location, remembered with whether it
\* reached the file.
AppendRecord ==
  IF cacheHit = "stale"
    THEN [op |-> "relocate", flushed |-> strategy # "read-only"]
    ELSE [op |-> "append"]

\* ai_locate: the located element's xpath is appended to the cache.
SaveToCache ==
  /\ pc = "save"
  /\ IF use_cache /\ has_task_cache
       THEN LET xpath == GetElementXPath(page, element.center)
            IN IF HasXPath(xpath)
                 THEN /\ caches' = Append(caches, LocateCache(call.prompt, XPathCache(xpath)))
                      /\ file' = Persist(file, caches', strategy)
                      /\ last' = AppendRecord
                 ELSE UNCHANGED <<file, caches, last>>
       ELSE UNCHANGED <<file, caches, last>>
  /\ pc' = "ret"
  /\ UNCHANGED <<cache_original_length, matched_cache_indices, strategy,
                 is_cache_result_used, loaded, focus, matchCalls, retags,
                 has_task_cache, page, call, attempt, use_cache, element, result,
                 modelCalls, scrolls, screenshots, cacheHit, responses, answer>>
  /\ UNCHANGED extVars

\* Whether the loop of ai_locate_with_scroll_retry scrolls after a failed
\* attempt: attempt < max_scroll_attempts - 1.
HasRetryLeft_Always(i, n) == TRUE

HasRetryLeft(i, n) == i < n - 1

\* ai_locate returns: to its caller, or into the loop of
\* ai_locate_with_scroll_retry, which returns the element, scrolls, or ends.
Return ==
  /\ pc = "ret"
  /\ IF call.kind = "locate" \/ element # NoElement
       THEN /\ result' = element
            /\ pc' = "idle"
            /\ UNCHANGED attempt
       ELSE IF HasRetryLeft(attempt, call.max_scroll_attempts)
         THEN /\ pc' = "scroll"
              /\ UNCHANGED <<result, attempt>>
         ELSE /\ attempt' = attempt + 1
              /\ pc' = "loop"
              /\ UNCHANGED result
  /\ UNCHANGED <<file, cacheVars, last, has_task_cache, page, call, use_cache, element,
                 modelCalls, scrolls, screenshots, cacheHit, responses, answer>>
  /\ UNCHANGED extVars

\* interface.scroll('down', scroll_distance), asyncio.sleep(0.5), next attempt.
Scroll ==
  /\ pc = "scroll"
  /\ scrolls' = scrolls + 1
  /\ attempt' = attempt + 1
  /\ pc' = "loop"
  /\ UNCHANGED <<file, cacheVars, last, has_task_cache, page, call, use_cache, element,
                 result, modelCalls, screenshots, cacheHit, responses, answer>>
  /\ UNCHANGED extVars

InitAgent ==
  /\ file = [exists |-> FALSE, caches |-> <<>>]
  /\ \/ /\ has_task_cache = TRUE
        /\ \E cache_strategy \in Strategies :
             /\ strategy = cache_strategy
             /\ is_cache_result_used = ResultUsed(cache_strategy, cache_strategy # "write-only")
     \/ /\ has_task_cache = FALSE
        /\ strategy = "read-write"
        /\ is_cache_result_used = FALSE
  /\ caches = <<>>
  /\ cache_original_length = 0
  /\ matched_cache_indices = {}
  /\ loaded = <<>>
  /\ focus \in {"locate"} \X AgentPrompts
  /\ matchCalls = 0
  /\ retags = 0
  /\ last = [op |-> "open"]
  /\ page \in Pages
  /\ NoCall
  /\ NoExt

\* The steps of a running call.
CallStep ==
  LoopHead \/ CacheLookup \/ Screenshot \/ CallModel \/ SaveToCache \/ Return \/ Scroll

NextAgent ==
  \/ NewAgent
  \/ PageChange
  \/ StartLocate
  \/ StartScrollRetry
  \/ LoopHead
  \/ CacheLookup
  \/ Screenshot
  \/ CallModel
  \/ SaveToCache
  \/ Return
  \/ Scroll

SpecAgent == InitAgent /\ [][NextAgent]_vars

\* A started call keeps taking steps: its awaits all complete.
SpecAgentFair == SpecAgent /\ WF_vars(CallStep)

\* ---------------------------------------------------------------- ai_click
\* ai_locate_with_scroll_retry's default max_scroll_attempts
DefaultMaxScrollAttempts == 3

\* A caller calls ai_click(prompt, enable_scroll_retry): it locates the
\* element with ai_locate_with_scroll_retry(prompt) or ai_locate(prompt),
\* both with their defaults.
StartClick ==
  /\ pc = "idle"
  /\ click_pc # "locating"
  /\ \E prompt \in AgentPrompts, enable_scroll_retry \in BOOLEAN :
       IF enable_scroll_retry
         THEN /\ BeginCall([kind |-> "retry", prompt |-> prompt, use_cache |-> TRUE,
                            max_scroll_attempts |-> DefaultMaxScrollAttempts])
              /\ use_cache' = FALSE
              /\ pc' = "loop"
         ELSE /\ BeginCall([kind |-> "locate", prompt |-> prompt, use_cache |-> TRUE,
                            max_scroll_attempts |-> 0])
              /\ use_cache' = TRUE
              /\ pc' = "cache"
  /\ click_pc' = "locating"
  /\ click_ret' = "none"
  /\ clicked_positions' = <<>>
  /\ UNCHANGED <<file, cacheVars, last, has_task_cache, page>>
  /\ UNCHANGED <<diskVars, writerVars, bboxVars, idVars, recVars, aiVars>>

ClickPoint_TopLeft(el) == <<el.rect.left, el.rect.top>>

\* x, y = element.center
ClickPoint(el) == el.center

\* ai_click after the locate: an exception of the locate leaves ai_click,
\* `if not element` returns False, and else the center is clicked and True
\* returned.
FinishClick ==
  /\ click_pc = "locating"
  /\ pc = "idle"
  /\ IF result = Raised
       THEN /\ click_pc' = "raised"
            /\ UNCHANGED <<click_ret, clicked_positions>>
     ELSE IF result = NoElement
       THEN /\ click_pc' = "returned"
            /\ click_ret' = "False"
            /\ UNCHANGED clicked_positions
       ELSE /\ clicked_positions' = Append(clicked_positions, ClickPoint(result))
            /\ click_pc' = "returned"
            /\ click_ret' = "True"
  /\ UNCHANGED <<file, cacheVars, last, agentVars>>
  /\ UNCHANGED <<diskVars, writerVars, bboxVars, idVars, recVars, aiVars>>

\* Between two ai_click calls: a new Agent, a page change.
ClickNewAgent == click_pc # "locating" /\ NewAgent
ClickPageChange == click_pc # "locating" /\ PageChange

NextClick ==
  \/ ClickNewAgent
  \/ ClickPageChange
  \/ StartClick
  \/ LoopHead
  \/ CacheLookup
  \/ Screenshot
  \/ CallModel
  \/ SaveToCache
  \/ Return
  \/ Scroll
  \/ FinishClick

SpecClick == InitAgent /\ [][NextClick]_vars

\* ------------------------------------------------- the session recorder
\* ai_click and ai_input of an Agent whose session recorder is enabled.  What
\* the recorder is told depends only on the way ai_locate ends, so the locate
\* is one step whose ending is chosen here; the cache and the model behind it
\* are those of the agent specification.

\* SessionRecorder.start_step: a pending step is appended and becomes current.
StartStep(recorded, action_type) ==
  Append(recorded, [action_type |-> action_type, status |-> "pending"])

\* SessionRecorder.complete_step(status): without a current step it returns
\* at once; else the current step gets the status.
CompleteStep(recorded, current, status) ==
  IF current = 0 THEN recorded ELSE [recorded EXCEPT ![current].status = status]

\* SessionRecorder.fail_step(error_message)
FailStep(recorded, current) == CompleteStep(recorded, current, "failed")

RecordedActions == {"click", "input"}

\* The ways ai_locate ends: a cache hit that resolves, a located element, a
\* response without bbox, an invalid bbox, an exception.
LocateEndings == {"resolved", "found", "nobbox", "invalid", "raised"}

\* The attempts the recorded call makes: the default max_scroll_attempts of
\* ai_locate_with_scroll_retry, or the one ai_locate call.
RecordedAttempts(enable_scroll_retry) ==
  IF enable_scroll_retry THEN DefaultMaxScrollAttempts ELSE 1

\* ai_click(prompt, enable_scroll_retry) / ai_input(prompt, text,
\* enable_scroll_retry): start_step(kind, prompt) and the screenshot before.
StartRecorded ==
  /\ step_pc = "idle"
  /\ Cardinality({i \in 1..Len(steps) : steps[i].action_type \in RecordedActions})
        < MaxRecordedCalls
  /\ \E kind \in RecordedActions, enable_scroll_retry \in BOOLEAN :
       /\ steps' = StartStep(steps, kind)
       /\ step_call' = [kind |-> kind, enable_scroll_retry |-> enable_scroll_retry,
                        first |-> Len(steps) + 1, attempt |-> 0]
  /\ current_step' = Len(steps')
  /\ step_pc' = "locate"
  /\ step_ret' = "none"
  /\ UNCHANGED <<file, cacheVars, last, agentVars, diskVars, writerVars, bboxVars,
                 deviceVars, idVars, aiVars>>

\* One ai_locate call of the recorded call: start_step("locate", prompt), then
\* complete_step("success") before it returns an element, fail_step before it
\* returns None, and neither when it raises.  The cache is consulted by
\* attempt 0 only.
RecordedLocate ==
  /\ step_pc = "locate"
  /\ \E ending \in LocateEndings :
       LET started == StartStep(steps, "locate")
           n == RecordedAttempts(step_call.enable_scroll_retry)
       IN /\ ending = "resolved" => step_call.attempt = 0
          /\ CASE ending \in {"resolved", "found"} ->
                    /\ steps' = CompleteStep(started, Len(started), "success")
                    /\ current_step' = 0
                    /\ step_pc' = "act"
                    /\ UNCHANGED <<step_call, step_ret>>
               [] ending \in {"nobbox", "invalid"} ->
                    /\ steps' = FailStep(started, Len(started))
                    /\ current_step' = 0
                    /\ step_call' = [step_call EXCEPT !.attempt = @ + 1]
                    /\ step_pc' = IF InRange(step_call.attempt + 1, n)
                                    THEN "locate" ELSE "notfound"
                    /\ UNCHANGED step_ret
               [] OTHER ->
                    /\ steps' = started
                    /\ current_step' = Len(started)
                    /\ step_pc' = "idle"
                    /\ step_ret' = "raised"
                    /\ UNCHANGED step_call
  /\ UNCHANGED <<file, cacheVars, last, agentVars, diskVars, writerVars, bboxVars,
                 deviceVars, idVars, aiVars>>

\* if not element: fail_step("Cannot locate: ..."), return False.
FailRecorded ==
  /\ step_pc = "notfound"
  /\ steps' = FailStep(steps, current_step)
  /\ current_step' = 0
  /\ step_pc' = "idle"
  /\ step_ret' = "False"
  /\ UNCHANGED step_call
  /\ UNCHANGED <<file, cacheVars, last, agentVars, diskVars, writerVars, bboxVars,
                 deviceVars, idVars, aiVars>>

\* The click or the input on the element's center, the screenshot after,
\* complete_step("success"), return True.
FinishRecorded ==
  /\ step_pc = "act"
  /\ steps' = CompleteStep(steps, current_step, "success")
  /\ current_step' = 0
  /\ step_pc' = "idle"
  /\ step_ret' = "True"
  /\ UNCHANGED step_call
  /\ UNCHANGED <<file, cacheVars, last, agentVars, diskVars, writerVars, bboxVars,
                 deviceVars, idVars, aiVars>>

\* A new Agent with a session recorder; its cache and its page stay as they
\* are.
InitRecorder ==
  /\ file = [exists |-> FALSE, caches |-> <<>>]
  /\ strategy = "read-write"
  /\ is_cache_result_used = TRUE
  /\ caches = <<>>
  /\ cache_original_length = 0
  /\ matched_cache_indices = {}
  /\ loaded = <<>>
  /\ focus = <<"locate", Str("a")>>
  /\ matchCalls = 0
  /\ retags = 0
  /\ last = [op |-> "open"]
  /\ NoCall
  /\ has_task_cache = TRUE
  /\ page = [e \in Elems |-> None]
  /\ NoExt

NextRecorder == StartRecorded \/ RecordedLocate \/ FailRecorded \/ FinishRecorded

SpecRecorder == InitRecorder /\ [][NextRecorder]_vars

\* ------------------------------------------------------------------ call_ai
\* call_ai(messages, model_config): the requests it sends and the sleeps
\* between them.  A request ends: it returns or it raises.  retry_count is
\* not negative, as the configuration loader requires.
RetryIntervals == {0, 1500, 2000}

\* What a request can raise inside the try: the client's exception, or the
\* ValueError for a response without choices.
RequestErrors == {"client_error", "no_choices"}

\* retry_delay = model_config.retry_interval / 1000: seconds, as a fraction.
RetryDelay(config) == [num |-> config.retry_interval, den |-> 1000]

\* Mutant of HasAttemptLeft: every failure is followed by a sleep.
HasAttemptLeft_Always(i, n) == TRUE

\* if attempt < max_attempts
HasAttemptLeft(i, n) == i < n

\* raise RuntimeError("Unexpected error in call_ai"), after the loop.
UnexpectedError == [kind |-> "RuntimeError", attempt |-> 0]

\* call_ai up to the first request: max_attempts = retry_count + 1,
\* last_error = None, for attempt in range(1, max_attempts + 1).
StartCallAi ==
  /\ ai_pc = "idle"
  /\ \E retry_count \in 0..MaxRetryCount, retry_interval \in RetryIntervals :
       /\ ai_config' = [retry_count |-> retry_count, retry_interval |-> retry_interval]
       /\ max_attempts' = retry_count + 1
  /\ last_error' = None
  /\ requests' = <<>>
  /\ sleeps' = <<>>
  /\ ai_attempt' = 1
  /\ IF 1 <= max_attempts'
       THEN /\ ai_pc' = "request"
            /\ ai_result' = [state |-> "running"]
       ELSE /\ ai_pc' = "idle"
            /\ ai_result' = [state |-> "raised", error |-> UnexpectedError]
  /\ UNCHANGED <<file, cacheVars, last, agentVars, diskVars, writerVars, bboxVars,
                 deviceVars, idVars, recVars>>

\* client.chat.completions.create(...) inside the try: a response is
\* returned; an exception becomes last_error and, when no attempt is left,
\* is raised.
Request ==
  /\ ai_pc = "request"
  /\ \E outcome \in {"ok"} \cup RequestErrors :
       /\ requests' = Append(requests, outcome)
       /\ IF outcome = "ok"
            THEN /\ ai_result' = [state |-> "returned", attempt |-> ai_attempt]
                 /\ ai_pc' = "idle"
                 /\ UNCHANGED last_error
            ELSE /\ last_error' = [kind |-> outcome, attempt |-> ai_attempt]
                 /\ IF HasAttemptLeft(ai_attempt, max_attempts)
                      THEN /\ ai_pc' = "sleep"
                           /\ UNCHANGED ai_result
                      ELSE /\ ai_pc' = "idle"
                           /\ ai_result' = [state |-> "raised", error |-> last_error']
  /\ UNCHANGED <<ai_config, max_attempts, ai_attempt, sleeps>>
  /\ UNCHANGED <<file, cacheVars, last, agentVars, diskVars, writerVars, bboxVars,
                 deviceVars, idVars, recVars>>

\* time.sleep(retry_delay), then the next attempt of the loop, or its end.
Sleep ==
  /\ ai_pc = "sleep"
  /\ sleeps' = Append(sleeps, RetryDelay(ai_config))
  /\ ai_attempt' = ai_attempt + 1
  /\ IF ai_attempt' <= max_attempts
       THEN /\ ai_pc' = "request"
            /\ UNCHANGED ai_result
       ELSE /\ ai_pc' = "idle"
            /\ ai_result' = [state |-> "raised", error |-> UnexpectedError]
  /\ UNCHANGED <<ai_config, max_attempts, last_error, requests>>
  /\ UNCHANGED <<file, cacheVars, last, agentVars, diskVars, writerVars, bboxVars,
                 deviceVars, idVars, recVars>>

\* Nothing but call_ai runs.
InitCallAi == InitRecorder

\* The steps of a running call_ai.
CallAiStep == Request \/ Sleep

NextCallAi == StartCallAi \/ Request \/ Sleep

SpecCallAi == InitCallAi /\ [][NextCallAi]_vars

\* ================================================================ claims
\* The indices of the entries of items that have the given type and prompt.
TagIndices(items, type, prompt) ==
  {i \in 1..Len(items) : items[i].type = type /\ items[i].prompt = prompt}

\* The index of the k-th entry of items, in file order, with the given type
\* and prompt; 0 when fewer than k exist.
KthIndex(items, type, prompt, k) ==
  LET S == TagIndices(items, type, prompt)
      at == {i \in S : Cardinality({j \in S : j <= i}) = k}
  IN IF at = {} THEN 0 ELSE CHOOSE i \in at : TRUE

\* What the k-th observed match_cache call is expected to return.
ExpectedIndex == KthIndex(loaded, focus[1], focus[2], matchCalls)

\* C1 as stated: with result use enabled, the k-th match_cache call with a
\* given (type, prompt) pair returns the k-th entry, in file order, among the
\* entries loaded at construction with that type and prompt, and None once
\* fewer than k such entries exist.
C1_KthMatchReturnsKthLoaded ==
  (last.op = "match" /\ is_cache_result_used) =>
    /\ last.index = ExpectedIndex
    /\ last.index # 0 => caches[last.index] = loaded[last.index]

\* C1 amended: the same, as long as no update_fn call of this instance has
\* replaced an entry by one of another type or prompt.
C1_KthMatchReturnsKthLoaded_NoRetag ==
  (last.op = "match" /\ is_cache_result_used /\ retags = 0) =>
    /\ last.index = ExpectedIndex
    /\ last.index # 0 => caches[last.index] = loaded[last.index]

\* Two stored entries with the pair: the third call has just returned None.
C1_Witness ==
  /\ last.op = "match" /\ is_cache_result_used /\ retags = 0
  /\ Cardinality(TagIndices(loaded, focus[1], focus[2])) = 2
  /\ matchCalls = 3
  /\ last.index = 0

C7_ReadOnlyNeverWrites ==
  [][/\ strategy = "read-only" => file' = file
     /\ (strategy = "read-write" /\ last'.op = "append") =>
          /\ file' # file
          /\ file'.exists
          /\ Len(file'.caches) = Len(caches')
          /\ LoadItem(file'.caches[Len(file'.caches)]) = caches'[Len(caches')]]_vars

\* A read-only instance has matched, updated and appended, and its entry list
\* differs from what the file holds.
C7_Witness ==
  /\ strategy = "read-only" /\ last.op = "append"
  /\ matched_cache_indices # {}
  /\ SubSeq(caches, 1, Len(loaded)) # loaded
  /\ LoadCacheFromFile(file) # caches

\* C8: a write-only cache starts with an empty entry list, write-only
\* switches result use off, and while result use is off match_cache returns
\* None and the consumption ledger stays empty.
C8_WriteOnlyMatchesNothing ==
  /\ (last.op = "open" /\ strategy = "write-only") => caches = <<>>
  /\ strategy = "write-only" => ~is_cache_result_used
  /\ ~is_cache_result_used =>
       /\ matched_cache_indices = {}
       /\ last.op = "match" => last.index = 0

\* A write-only instance on a file holding an entry with the observed pair:
\* its entry list is empty and a match_cache call with the pair has returned.
C8_Witness ==
  /\ strategy = "write-only" /\ last.op = "match"
  /\ caches = <<>>
  /\ file.exists
  /\ TagIndices(LoadAll(file.caches), focus[1], focus[2]) # {}

\* C9 as stated: an append_cache on a write-only cache keeps the entries the
\* file already holds: the file afterwards is the old document plus the
\* appended entry.
C9_WriteOnlyAppendKeepsFile ==
  [][(strategy = "write-only" /\ last'.op = "append" /\ file.exists) =>
       /\ Len(file'.caches) = Len(file.caches) + 1
       /\ SubSeq(file'.caches, 1, Len(file.caches)) = file.caches]_vars

\* C10: a cache constructed (not write-only) on the file a read-write cache
\* has written holds the entries of that cache: as many, the same prompt and
\* xpaths (or workflow), in the same order.
C10_RoundTrip ==
  [][(last'.op = "open" /\ strategy = "read-write" /\ strategy' # "write-only") =>
       /\ Len(caches') = Len(caches)
       /\ caches' = caches]_vars

\* A cache has just been constructed on a file holding MaxEntries distinct
\* entries.
C10_Witness ==
  /\ last.op = "open" /\ strategy # "write-only"
  /\ Len(caches) = MaxEntries
  /\ \A i, j \in 1..Len(caches) : i # j => caches[i] # caches[j]
  /\ \E i \in 1..Len(caches) : caches[i].type = "locate"

\* C11: update_fn of a match result stores the new entry at the matched
\* original index and leaves the list length and every other entry as they
\* were; under read-write the file then holds the whole new list, under
\* read-only the file is untouched.
C11_UpdateInPlace ==
  [][last'.op = "update" =>
       /\ last'.index \in Handles
       /\ last'.index <= cache_original_length
       /\ Len(caches') = Len(caches)
       /\ caches'[last'.index] = last'.item
       /\ \A j \in 1..Len(caches) : j # last'.index => caches'[j] = caches[j]
       /\ strategy = "read-write" =>
            /\ file'.exists
            /\ LoadAll(file'.caches) = caches'
       /\ strategy = "read-only" => file' = file]_vars

\* A read-write instance with two entries, one of them appended in this run,
\* has just replaced a matched entry by a different one.
C11_Witness ==
  /\ last.op = "update"
  /\ strategy = "read-write"
  /\ Len(caches) = 2 /\ Len(loaded) = 1
  /\ caches[last.index] # loaded[last.index]
  /\ LoadAll(file.caches) = caches

\* ------------------------------------------------------ claims on the Agent
\* A finished ai_locate_with_scroll_retry call in which every attempt got a
\* model answer without a usable bbox: no attempt was served from the cache
\* and no model call failed or located an element.
EveryAttemptWithoutBbox ==
  /\ pc = "idle"
  /\ call.kind = "retry"
  /\ cacheHit # "resolved"
  /\ responses \subseteq {"nobbox"}

\* C3: for any max_scroll_attempts N >= 0, a call to
\* ai_locate_with_scroll_retry terminates and never makes more than N model
\* calls; when no attempt yields a usable bbox it makes exactly N model calls
\* and returns None.
C3_ScrollRetryTerminates ==
  /\ [](call.kind = "retry" => modelCalls <= call.max_scroll_attempts)
  /\ [](EveryAttemptWithoutBbox =>
         /\ result = NoElement
         /\ modelCalls = call.max_scroll_attempts)
  /\ (call.kind = "retry" /\ pc # "idle") ~> (pc = "idle")

\* A call with two or more attempts came to its end without a usable bbox,
\* after scrolling between the attempts.
C3_Witness ==
  /\ EveryAttemptWithoutBbox
  /\ call.max_scroll_attempts >= 2
  /\ modelCalls = call.max_scroll_attempts
  /\ scrolls >= 1
  /\ result = NoElement

\* C4: after a cache hit whose XPath resolves to no element on the page, the
\* call neither returns nor scrolls before the model call of that attempt: it
\* goes on to the screenshot and the model call, which is then made.
C4_StaleHitCallsModelFirst ==
  /\ []((cacheHit = "stale" /\ modelCalls = 0) =>
          /\ pc \in {"shot", "ai"}
          /\ scrolls = 0
          /\ attempt = 0
          /\ result = Pending)
  /\ (cacheHit = "stale") ~> (modelCalls >= 1)

\* Attempt 0 of a scroll-retry call had a stale hit and has made its model
\* call, with no scroll so far.
C4_Witness ==
  /\ call.kind = "retry"
  /\ cacheHit = "stale"
  /\ attempt = 0
  /\ modelCalls = 1
  /\ scrolls = 0

\* The entry the running call's cache lookup is due to get: the next unused
\* one among the locate entries loaded for the prompt.
DueEntry == KthIndex(loaded, "locate", call.prompt, matchCalls + 1)

\* The lookup is made, a stored locate entry matches the prompt, and its
\* first XPath resolves on the page.
ResolvingHit ==
  /\ pc = "cache"
  /\ use_cache /\ has_task_cache
  /\ DueEntry # 0
  /\ GetElementByXPath(page, FirstXPath(loaded[DueEntry])) # NoElement

\* C5: a cache lookup with use_cache true, a stored locate entry matching the
\* prompt and a first XPath that resolves returns that node's rect and
\* center, marks one more entry as matched and leaves the cache and its file
\* alone; a call served that way makes no screenshot, no model call, no
\* scroll and no append, and the first such call of an Agent leaves
\* matched_records at 1.
C5_ResolvingHitReturnsCached ==
  /\ [][ResolvingHit =>
          LET info == GetElementByXPath(page, FirstXPath(loaded[DueEntry]))
          IN /\ cacheHit' = "resolved"
             /\ pc' = "ret"
             /\ element' = LocateResultElement(call.prompt, info.center, info.rect)
             /\ Cardinality(matched_cache_indices') = Cardinality(matched_cache_indices) + 1
             /\ UNCHANGED <<caches, file, modelCalls, screenshots, scrolls>>]_vars
  /\ [][cacheHit' = "resolved" => UNCHANGED <<caches, file>>]_vars
  /\ [](cacheHit = "resolved" =>
          /\ modelCalls = 0 /\ screenshots = 0 /\ scrolls = 0
          /\ pc \in {"ret", "idle"}
          /\ element.type = "element"
          /\ matchCalls = 1 => Cardinality(matched_cache_indices) = 1
          /\ pc = "idle" => result = element)

\* An Agent opened on the file an earlier Agent wrote has located the prompt
\* from the cache: no model call, one matched record.
C5_Witness ==
  /\ pc = "idle"
  /\ call.kind = "locate"
  /\ cacheHit = "resolved"
  /\ result.type = "element"
  /\ modelCalls = 0
  /\ file.exists
  /\ Len(loaded) = 1
  /\ Cardinality(matched_cache_indices) = 1

\* The entries this Agent appended for the running call's prompt whose first
\* XPath resolves on the page.
AppendedResolving ==
  {i \in (Len(loaded) + 1)..Len(caches) :
     /\ caches[i].type = "locate"
     /\ caches[i].prompt = call.prompt
     /\ GetElementByXPath(page, FirstXPath(caches[i])) # NoElement}

\* C6: within one Agent with caching enabled, once an ai_locate(prompt) was
\* answered by the model and cached, the next ai_locate with the same prompt
\* is served from the cache: no further model call, and the element of the
\* cached locator is returned.
C6_SecondLocateServedFromCache ==
  [][(/\ pc = "cache"
      /\ call.kind = "locate"
      /\ use_cache /\ has_task_cache
      /\ strategy = "read-write"
      /\ AppendedResolving # {})
       => /\ pc' = "ret"
          /\ cacheHit' = "resolved"
          /\ \E i \in AppendedResolving :
               element'.center = GetElementByXPath(page, FirstXPath(caches[i])).center]_vars

\* C12: a model answer whose bbox the decoder of the configured family cannot
\* take counts as an attempt that found nothing: the call does not raise.
C12_MalformedBboxIsNotFound ==
  answer = "malformed" => (result # Raised /\ element = NoElement)

\* The model answers without a usable bbox: no bbox field, an empty bbox, or
\* a list of fewer than 2 numbers.
UnusableAnswers == {"nobbox", "empty", "short"}

\* C13: on a model answer without a bbox field, with an empty bbox or with a
\* bbox list of fewer than 2 numbers, ai_locate returns None, raises nothing
\* and appends nothing to the cache; ai_locate_with_scroll_retry then goes to
\* its retry branch: the scroll when an attempt is left, else the end of the
\* loop, where the call returns None.
C13_UnusableBboxReturnsNone ==
  /\ [][(pc = "ai" /\ pc' # "ai" /\ answer' \in UnusableAnswers) =>
          /\ pc' = "ret"
          /\ element' = NoElement
          /\ result' = Pending
          /\ UNCHANGED <<caches, file>>]_vars
  /\ [][(pc = "ret" /\ pc' # "ret" /\ answer \in UnusableAnswers) =>
          /\ UNCHANGED <<caches, file, modelCalls>>
          /\ IF call.kind = "locate"
               THEN pc' = "idle" /\ result' = NoElement
             ELSE IF attempt < call.max_scroll_attempts - 1
               THEN pc' = "scroll" /\ result' = Pending
               ELSE pc' = "loop" /\ attempt' = call.max_scroll_attempts]_vars
  /\ []((answer \in UnusableAnswers /\ pc = "idle") => result = NoElement)

\* A scroll-retry call with caching got a bbox of a single number on its
\* first attempt and is about to scroll; nothing was appended.
C13_Witness ==
  /\ call.kind = "retry" /\ call.use_cache /\ has_task_cache
  /\ answer = "short"
  /\ pc = "scroll"
  /\ attempt = 0
  /\ Len(caches) = Len(loaded)

\* C14: a transport failure of the model call ends the call with the error:
\* the call is over at once, and no attempt, scroll or cache write follows
\* in it.
C14_TransportFailurePropagates ==
  /\ []((answer = "error") => (pc = "idle" /\ result = Raised))
  /\ [][(pc = "ai" /\ answer' = "error") =>
          UNCHANGED <<caches, file, scrolls, attempt>>]_vars
  /\ [][(answer = "error" /\ answer' = "error") =>
          UNCHANGED <<caches, file, scrolls, attempt, modelCalls, screenshots>>]_vars

\* The model call of the first attempt of a caching scroll-retry call
\* failed, with another attempt still allowed, and the call is over.
C14_Witness ==
  /\ call.kind = "retry" /\ call.use_cache /\ has_task_cache
  /\ answer = "error"
  /\ result = Raised
  /\ attempt = 0 /\ scrolls = 0 /\ modelCalls = 1
  /\ call.max_scroll_attempts >= 2

\* C15: when the model located the element and no XPath can be derived for
\* its center, ai_locate still returns the element, and the entry list and
\* the file are left as they were.
C15_NoXPathSkipsCaching ==
  /\ [][(pc = "save" /\ pc' # "save" /\ GetElementXPath(page, element.center) = None) =>
          /\ pc' = "ret"
          /\ element' = element
          /\ UNCHANGED <<caches, file>>]_vars
  /\ [][(pc = "ret" /\ pc' # "ret" /\ answer = "bbox") =>
          /\ pc' = "idle"
          /\ result' = element
          /\ result'.type = "element"
          /\ UNCHANGED <<caches, file>>]_vars

\* A caching ai_locate answered by the model has returned an element whose
\* center has no XPath, and the cache holds what it loaded.
C15_Witness ==
  /\ pc = "idle"
  /\ call.kind = "locate" /\ call.use_cache /\ has_task_cache
  /\ strategy = "read-write"
  /\ answer = "bbox"
  /\ result.type = "element"
  /\ GetElementXPath(page, result.center) = None
  /\ caches = loaded

\* C16: on every attempt of a scroll-retry call made with use_cache on which
\* the model locates the element, attempt 0 and the attempts after a scroll
\* alike, an XPath derivable for the center is appended to the cache as one
\* LocateCache entry {prompt, xpaths: [xpath]}.
C16_EveryFoundAttemptAppends ==
  [][(/\ pc = "save" /\ pc' # "save"
      /\ call.kind = "retry" /\ call.use_cache /\ has_task_cache
      /\ GetElementXPath(page, element.center) # None) =>
       caches' = Append(caches, LocateCache(call.prompt,
                                XPathCache(GetElementXPath(page, element.center))))]_vars

\* ------------------------------------------- claims on the failing disk
\* C17: when creating the cache directory or writing the cache file fails
\* during append_cache or update_fn, the call does not raise and the
\* in-memory entry list holds the appended or updated entry.
C17_FlushFailureIsSwallowed ==
  (last.op \in {"append", "update"} /\ fault \in {"mkdir", "open", "write"}) =>
    /\ ~raised
    /\ last.op = "append" => caches[Len(caches)] = last.item
    /\ last.op = "update" => caches[last.index] = last.item

\* C18: cache-file writes are atomic: at every point of a write, a failure
\* or a crash in the middle of it included, the file holds a complete
\* document, the previous one or the new one.
C18_WritesAreAtomic == file_complete

\* ------------------------------------------------ claims on two writers
\* C19: with two read-write instances on one file, every append_cache
\* rewrites the whole file from the appending instance's own list (the last
\* writer wins), so that the state of the witness is reachable: each
\* instance has appended one entry and the file lacks one of the two.
C19_LastWriterWins ==
  [][last'.op = "append" =>
       LoadAll(file'.caches) = (IF last'.who = "A" THEN caches' ELSE other_caches')]_vars

\* Both instances were opened on the empty file and each appended one entry;
\* the file holds the second instance's entry and lacks the first one's.
C19_Witness ==
  /\ other_open
  /\ Len(loaded) = 0
  /\ Len(caches) = 1 /\ Len(other_caches) = 1
  /\ caches[1] # other_caches[1]
  /\ LoadAll(file.caches) = other_caches

\* -------------------------------------------- claims on the coordinate adapter
\* C20: for every model family and every bbox the family's decoder takes,
\* the rectangle of adapt_bbox followed by format_bbox has left >= 0,
\* top >= 0, width >= 0, height >= 0, left + width <= right_limit and
\* top + height <= bottom_limit.
C20_RectInvariant ==
  rect_out.state = "rect" =>
    LET rect == rect_out.rect
    IN /\ rect.left >= 0 /\ rect.top >= 0
       /\ rect.width >= 0 /\ rect.height >= 0
       /\ rect.left + rect.width <= bbox_in.right_limit
       /\ rect.top + rect.height <= bbox_in.bottom_limit

\* v is an integer nearest to num / den.
Nearest(v, num, den) ==
  LET diff == den * v - num
  IN 2 * (IF diff < 0 THEN -diff ELSE diff) <= den

\* The call at hand is done, for the family, with a list of len numbers.
Adapted(family, len) ==
  /\ rect_out.state # "none"
  /\ bbox_in.model_family = family
  /\ bbox_in.bbox.form \in {"list", "nested"}
  /\ Len(bbox_in.bbox.nums) = len

\* The rectangle's corners are the nearest integers to the numbers at places
\* x1, y1, x2, y2 of the bbox scaled by width/1000 and height/1000.
ScaledCorners(x1, y1, x2, y2) ==
  /\ rect_out.state = "rect"
  /\ LET n == bbox_in.bbox.nums
         rect == rect_out.rect
     IN /\ Nearest(rect.left, n[x1] * bbox_in.width, 1000)
        /\ Nearest(rect.top, n[y1] * bbox_in.height, 1000)
        /\ Nearest(rect.left + rect.width, n[x2] * bbox_in.width, 1000)
        /\ Nearest(rect.top + rect.height, n[y2] * bbox_in.height, 1000)

\* C21: a 4-number box [x1, y1, x2, y2] of the doubao-vision family comes
\* out as each coordinate scaled by dimension/1000 and rounded to the nearest
\* integer; [500, 300, 700, 400] on 1920x1080 is left 960, top 324,
\* width 384, height 108.
C21_DoubaoScalesAndRounds ==
  /\ Adapted("doubao-vision", 4) => ScaledCorners(1, 2, 3, 4)
  /\ (bbox_in = DoubaoExample /\ rect_out.state # "none") =>
       rect_out = [state |-> "rect",
                   rect |-> [left |-> 960, top |-> 324, width |-> 384, height |-> 108]]

C21_Witness ==
  /\ bbox_in = DoubaoExample
  /\ rect_out.state = "rect"

\* C22: a 4-number box of the gemini family is read as [y1, x1, y2, x2]:
\* left comes from place 1 and top from place 0, the right side from place 3
\* and the bottom from place 2 (places counted from 0), each scaled by
\* dimension/1000.
C22_GeminiSwapsAxes ==
  Adapted("gemini", 4) => ScaledCorners(2, 1, 4, 3)

C22_Witness ==
  /\ Adapted("gemini", 4)
  /\ bbox_in.bbox.nums = <<100, 333, 500, 1000>>
  /\ bbox_in.width = 1280
  /\ rect_out.state = "rect"
  /\ rect_out.rect.left = 426

\* C23 as stated: the gemini box [100, 200, 300, 400] on 1000x1000 gives
\* left 200, top 100, width 100, height 300.
C23_GeminiExample ==
  (bbox_in = GeminiExample /\ rect_out.state # "none") =>
    rect_out = [state |-> "rect",
                rect |-> [left |-> 200, top |-> 100, width |-> 100, height |-> 300]]

\* C23 amended: the gemini box [100, 200, 300, 400] on 1000x1000 gives
\* left 200, top 100, width 400 - 200 = 200, height 300 - 100 = 200.
C23_GeminiExample_Amended ==
  (bbox_in = GeminiExample /\ rect_out.state # "none") =>
    rect_out = [state |-> "rect",
                rect |-> [left |-> 200, top |-> 100, width |-> 200, height |-> 200]]

C23_Witness ==
  /\ bbox_in = GeminiExample
  /\ rect_out.state = "rect"
  /\ rect_out.rect.width = 200

\* The families adapt_bbox hands to adapt_doubao_bbox.
DoubaoFamilies == {f \in Families : f = "doubao-vision" \/ IsUiTars(f)}

\* C24: a 2-number center point [cx, cy] of a doubao family comes out as a
\* rectangle whose width and height are positive and at most 20 pixels and
\* that lies within [0, width] x [0, height].
C24_CenterPointSquare ==
  \A f \in DoubaoFamilies :
    Adapted(f, 2) =>
      /\ rect_out.state = "rect"
      /\ LET rect == rect_out.rect
         IN /\ rect.width > 0 /\ rect.width <= DEFAULT_BBOX_SIZE
            /\ rect.height > 0 /\ rect.height <= DEFAULT_BBOX_SIZE
            /\ rect.left >= 0 /\ rect.left + rect.width <= bbox_in.width
            /\ rect.top >= 0 /\ rect.top + rect.height <= bbox_in.height

\* A center point in a corner of the image: the square is cut on two sides.
C24_Witness ==
  /\ Adapted("doubao-vision", 2)
  /\ bbox_in.bbox.nums = <<0, 1000>>
  /\ rect_out.state = "rect"
  /\ rect_out.rect.left = 0
  /\ rect_out.rect.width = DEFAULT_BBOX_SIZE \div 2
  /\ rect_out.rect.top + rect_out.rect.height = bbox_in.height

OutsideArity ==
  LET len == Len(bbox_in.bbox.nums)
      f == bbox_in.model_family
  IN \/ f \in DoubaoFamilies /\ len \notin 2..8
     \/ f \in {"gemini", "qwen3-vl", None} /\ len # 4

\* C26: adapt_bbox raises, and gives no rectangle, for every input whose
\* number of numbers is outside the documented ones for its family.
C26_RejectsOtherArities ==
  (rect_out.state # "none" /\ OutsideArity) => rect_out.state = "raised"

C28_UnsetFamilyUsesDefaultRule ==
  (answer = "bbox" /\ pc = "save") =>
    \E e \in Elems :
      LET rect == element.rect
      IN /\ Nearest(rect.left, Bbox(e)[1] * ImgWidth, 1000)
         /\ Nearest(rect.top, Bbox(e)[2] * ImgHeight, 1000)
         /\ Nearest(rect.left + rect.width, Bbox(e)[3] * ImgWidth, 1000)
         /\ Nearest(rect.top + rect.height, Bbox(e)[4] * ImgHeight, 1000)

\* C28 amended: with no model family configured, a locate decodes the
\* 4-number bbox of the answer as the qwen2.5-vl family: [x1, y1, x2, y2]
\* in pixels, not scaled.
C28_UnsetFamilyUsesPixels ==
  (answer = "bbox" /\ pc = "save") =>
    \E e \in Elems :
      element.rect = [left |-> Bbox(e)[1], top |-> Bbox(e)[2],
                      width |-> Bbox(e)[3] - Bbox(e)[1],
                      height |-> Bbox(e)[4] - Bbox(e)[2]]

\* The answer [100, 200, 300, 250] was decoded and the element returned.
C28_Witness ==
  /\ answer = "bbox"
  /\ pc = "idle"
  /\ result.type = "element"
  /\ result.rect = [left |-> 100, top |-> 200, width |-> 200, height |-> 50]
  /\ result.center = <<200, 225>>

\* ------------------------------------------------------- claims on ai_click
\* C30: ai_click returns False and clicks nothing when the element is not
\* located; when it is located, ai_click issues exactly one click, at the
\* center of the element, and returns True. No click is issued before the
\* locate has returned.
C30_ClickOnlyWhenLocated ==
  /\ [](click_pc \in {"locating", "raised"} => clicked_positions = <<>>)
  /\ [][click_pc' = click_pc => clicked_positions' = clicked_positions]_vars
  /\ [][(click_pc = "locating" /\ click_pc' = "returned") =>
          IF result = NoElement
            THEN click_ret' = "False" /\ clicked_positions' = <<>>
            ELSE /\ result.type = "element"
                 /\ click_ret' = "True"
                 /\ clicked_positions' =
                      << <<result.rect.left + result.rect.width \div 2,
                           result.rect.top + result.rect.height \div 2>> >>]_vars

\* An ai_click found the element of [100, 200, 300, 250] after a scroll and
\* clicked its center.
C30_Witness ==
  /\ click_pc = "returned"
  /\ click_ret = "True"
  /\ call.kind = "retry"
  /\ scrolls > 0
  /\ clicked_positions = << <<200, 225>> >>

\* ---------------------------------------------------- claims on the cache id
\* C29: after construction with a non-empty cache_id, the stored cache_id
\* holds none of the illegal path characters and no space, and is at most
\* 200 UTF-8 bytes long: an id longer than 200 bytes is replaced by a prefix
\* of it, "-" and a hash suffix.
C29_CacheIdIsSafeAndBounded ==
  (cache_id.state # "none" /\ cache_id_arg # <<>>) =>
    /\ cache_id.state = "set"
    /\ \A i \in 1..Len(cache_id.id) : cache_id.id[i][1] \notin IllegalChars \cup {" "}
    /\ ByteLength(cache_id.id) <= 200
    /\ CharLength(cache_id.id) <= CharLength(cache_id_arg)
    /\ ByteLength(cache_id_arg) > 200 =>
         /\ CharLength(cache_id.id) = 32 + 1 + 8
         /\ cache_id.id[Len(cache_id.id)] = <<"hex", 8>>
         /\ cache_id.id[Len(cache_id.id) - 1] = <<"-", 1>>

\* An id of 33 illegal characters and 51 characters of 4 bytes (237 bytes)
\* was cut to 32 characters and the suffix.
C29_Witness ==
  /\ cache_id_arg = << <<"/", 33>>, <<"emoji", 51>> >>
  /\ cache_id.state = "set"
  /\ cache_id.id = << <<"_", 32>>, <<"-", 1>>, <<"hex", 8>> >>

\* ------------------------------------------------ claims on the retry loop
\* The steps of one attempt of a scroll-retry call: ai_locate is running.
InAttempt == call.kind = "retry" /\ pc \in {"cache", "shot", "ai", "save"}

\* C31: in a scroll-retry locate the cache is consulted at most once, on
\* attempt 0 and only if the caller passed use_cache true: every attempt
\* with index >= 1 runs with use_cache false and never calls match_cache.
C31_CacheOnlyOnFirstAttempt ==
  /\ []((InAttempt /\ attempt >= 1) => ~use_cache)
  /\ []((InAttempt /\ use_cache) => (attempt = 0 /\ call.use_cache))
  /\ [][(call.kind = "retry" /\ pc # "idle" /\
          (matched_cache_indices' # matched_cache_indices \/ matchCalls' # matchCalls)) =>
            /\ pc = "cache" /\ attempt = 0 /\ call.use_cache
            /\ modelCalls = 0 /\ scrolls = 0 /\ screenshots = 0]_vars
  /\ [][(call.kind = "retry" /\ pc # "idle" /\ pc' = "cache") =>
            /\ pc = "loop"
            /\ attempt' = attempt
            /\ modelCalls = attempt /\ screenshots = attempt]_vars

\* The second attempt of a call that asked for the cache, on a cache with an
\* entry that no lookup has consumed: the lookup is skipped.
C31_Witness ==
  /\ InAttempt /\ pc = "cache"
  /\ call.use_cache /\ has_task_cache /\ is_cache_result_used
  /\ attempt = 1
  /\ ~use_cache
  /\ cache_original_length > 0
  /\ \E i \in 1..cache_original_length :
       Matches(caches, matched_cache_indices, "locate", call.prompt, i)

\* C32: in a scroll-retry locate the attempts run one after another with
\* exactly one scroll, and its settle delay, between two consecutive
\* attempts; no scroll follows the last allowed attempt or an attempt that
\* found the element, and no model call follows a found element.
C32_OneScrollBetweenAttempts ==
  /\ [](InAttempt => (scrolls = attempt /\ attempt < call.max_scroll_attempts))
  /\ [][(call.kind = "retry" /\ pc # "idle" /\ scrolls' # scrolls) =>
            /\ scrolls' = scrolls + 1
            /\ attempt' = attempt + 1
            /\ attempt < call.max_scroll_attempts - 1
            /\ element = NoElement
            /\ pc = "scroll" /\ pc' = "loop"]_vars
  /\ [][(call.kind = "retry" /\ pc # "idle" /\ attempt' # attempt) =>
            /\ attempt' = attempt + 1
            /\ element = NoElement
            /\ (scrolls' = scrolls + 1) <=> (attempt < call.max_scroll_attempts - 1)]_vars
  /\ [][(call.kind = "retry" /\ pc # "idle" /\ element # NoElement) =>
            /\ modelCalls' = modelCalls
            /\ scrolls' = scrolls
            /\ attempt' = attempt]_vars
  /\ []((call.kind = "retry" /\ pc = "idle" /\ result = NoElement
          /\ call.max_scroll_attempts > 0) =>
            scrolls = call.max_scroll_attempts - 1)

\* Two attempts found nothing: one scroll was made between them and none
\* after the second, the last allowed.
C32_Witness ==
  /\ call.kind = "retry" /\ call.max_scroll_attempts = 2
  /\ pc = "idle" /\ result = NoElement
  /\ modelCalls = 2
  /\ scrolls = 1

ReturnsOf(i) == Cardinality({key \in matched_cache_indices : key[3] = i})

\* get_stats()["matched_records"] and get_stats()["original_records"].
MatchedRecords == Cardinality(matched_cache_indices)
OriginalRecords == cache_original_length

\* C34 (as stated): each original index has been returned by match at most
\* once and matched_records never exceeds original_records, also after an
\* update that stored an entry of another type or prompt.
C34_EachIndexReturnedOnce ==
  /\ \A i \in 1..Len(caches) : ReturnsOf(i) <= 1
  /\ MatchedRecords <= OriginalRecords

\* C34 (amended): match returns an index only for a pair it has not returned
\* it for, and marks it; an index has been returned at most once plus the
\* number of updates that changed a slot's type or prompt, so matched_records
\* is at most original_records plus that number, and at most
\* original_records while no such update happened.
C34_EachIndexReturnedOncePerTag ==
  /\ [](\A key \in matched_cache_indices : key[3] \in 1..cache_original_length)
  /\ [](\A i \in 1..Len(caches) : ReturnsOf(i) <= 1 + retags)
  /\ [](MatchedRecords <= OriginalRecords + retags)
  /\ []((last.op = "match" /\ last.index # 0) =>
          Key(focus[1], focus[2], last.index) \in matched_cache_indices)
  /\ [][(last'.op = "match" /\ last'.index # 0) =>
          Key(focus[1], focus[2], last'.index) \notin matched_cache_indices]_vars

C34_Witness ==
  /\ retags = 1
  /\ OriginalRecords = 1
  /\ MatchedRecords = 2
  /\ ReturnsOf(1) = 2
  /\ last.op = "match" /\ last.index = 1

\* ---- claims on runs that share a cache file

\* The first cached ai_locate of a fresh Agent whose cache file was last
\* written by a re-location after a stale hit, on a page where the xpath that
\* re-location persisted resolves.
FirstLocateAfterRelocation ==
  /\ pc = "cache" /\ call.kind = "locate" /\ use_cache
  /\ has_task_cache /\ is_cache_result_used
  /\ matched_cache_indices = {}
  /\ last.op = "relocate" /\ last.flushed
  /\ caches = LoadCacheFromFile(file)
  /\ Len(caches) >= 2
  /\ caches[Len(caches)].prompt = call.prompt
  /\ GetElementByXPath(page, FirstXPath(caches[Len(caches)])) # NoElement

\* C35: after a run hit a stale entry, re-located through the model and
\* persisted the new xpath, the first locate of that prompt in the next run
\* on the same page resolves from the cache, without a model call.
C35_NextRunResolvesFromCache ==
  [][FirstLocateAfterRelocation =>
       /\ cacheHit' = "resolved"
       /\ element' # NoElement
       /\ pc' = "ret"
       /\ modelCalls' = 0]_vars

\* ---- claims on the session recorder

\* C36: whenever ai_click or ai_input returns, True or False, with recording
\* enabled, the recorder has no current step and every step started during
\* the call has status success or failed.
C36_NoStepLeftPending ==
  (step_pc = "idle" /\ step_ret \in {"True", "False"}) =>
     /\ current_step = 0
     /\ \A i \in step_call.first..Len(steps) : steps[i].status \in {"success", "failed"}

\* ---- claims on what match leaves alone

\* C37: match never changes the in-memory entry list and never writes the
\* cache file; a match that returns None leaves the consumption ledger
\* unchanged, and a match that returns an entry adds exactly one key to it.
C37_MatchOnlyTouchesLedger ==
  /\ [][last'.op \in {"match", "other_match"} =>
          /\ caches' = caches
          /\ cache_original_length' = cache_original_length
          /\ file' = file
          /\ matched_cache_indices \subseteq matched_cache_indices'
          /\ Cardinality(matched_cache_indices' \ matched_cache_indices) <= 1]_vars
  /\ [][last'.op = "match" =>
          IF last'.index = 0
            THEN matched_cache_indices' = matched_cache_indices
            ELSE matched_cache_indices' \ matched_cache_indices =
                   {Key(focus[1], focus[2], last'.index)}]_vars

C37_Witness ==
  /\ last.op = "match" /\ last.index = 2
  /\ file.exists /\ Len(file.caches) = 2
  /\ strategy = "read-write"
  /\ matched_cache_indices =
       {Key(focus[1], focus[2], 1), Key(focus[1], focus[2], 2)}

\* ---- claims on a cache file that does not load

\* C38: a cache file that exists but cannot be read or parsed gives, at
\* construction, an empty cache; the next persisted append in read-write mode
\* overwrites the file, which then holds only the entries appended in this
\* run.
C38_DamagedFileStartsEmpty ==
  /\ [](Damaged(file) =>
          /\ caches = <<>> \/ strategy = "read-only"
          /\ loaded = <<>>
          /\ cache_original_length = 0)
  /\ [][(Damaged(file) /\ last'.op = "open") =>
          /\ caches' = <<>>
          /\ cache_original_length' = 0
          /\ file' = file]_vars
  /\ [][(Damaged(file) /\ last'.op = "append" /\ strategy = "read-write") =>
          /\ file'.exists /\ ~Damaged(file')
          /\ caches' = Append(caches, caches'[Len(caches')])
          /\ caches = <<>>
          /\ LoadAll(file'.caches) = caches'
          /\ Len(file'.caches) = 1]_vars

C38_Witness ==
  /\ last.op = "append" /\ strategy = "read-write"
  /\ loaded = <<>> /\ cache_original_length = 0 /\ is_cache_result_used
  /\ file.exists /\ ~Damaged(file)
  /\ Len(file.caches) = 2
  /\ LoadAll(file.caches) = caches
  /\ matchCalls > 0

\* ---- claims on call_ai

\* The steps call_ai has taken: each sends a request or sleeps.
CallAiMeasure == Len(requests) + Len(sleeps)

\* C39: call_ai sends at most retry_count + 1 requests; it returns on the
\* first request that succeeds; it waits retry_interval between a failed
\* request and the next one; after retry_count + 1 failures it raises the
\* last error; and it always terminates: every step of a running call is a
\* request or a wait, a running call can always take one, and it takes at
\* most 2 * retry_count + 1 of them.
C39_CallAiRetries ==
  /\ [](Len(requests) <= ai_config.retry_count + 1)
  /\ [](\A i \in 1..Len(requests) - 1 : requests[i] # "ok")
  /\ [](ai_result.state = "returned" <=>
           (Len(requests) > 0 /\ requests[Len(requests)] = "ok"))
  /\ [](ai_result.state = "returned" => ai_result.attempt = Len(requests))
  /\ [](\A i \in 1..Len(sleeps) :
           sleeps[i] = [num |-> ai_config.retry_interval, den |-> 1000])
  /\ [](Len(sleeps) = IF ai_pc = "request" THEN Len(requests)
                       ELSE IF Len(requests) = 0 THEN 0 ELSE Len(requests) - 1)
  /\ [](ai_result.state = "raised" <=>
           /\ ai_pc = "idle"
           /\ Len(requests) = ai_config.retry_count + 1
           /\ requests[Len(requests)] # "ok")
  /\ [](ai_result.state = "raised" =>
           ai_result.error = [kind |-> requests[Len(requests)],
                              attempt |-> Len(requests)])
  /\ [](ai_pc # "idle" => ENABLED CallAiStep)
  /\ [](CallAiMeasure <= 2 * ai_config.retry_count + 1)
  /\ [][ai_pc # "idle" => CallAiMeasure' = CallAiMeasure + 1]_vars
  /\ [](ai_pc = "idle" <=> ai_result.state \in {"none", "returned", "raised"})

C39_Witness ==
  /\ ai_result.state = "raised"
  /\ ai_config.retry_count = 2
  /\ ai_config.retry_interval = 1500
  /\ requests = <<"client_error", "no_choices", "client_error">>
  /\ Len(sleeps) = 2

====
